---- MODULE Spec2Model ----
(***************************************************************************)
(* Model of the jira-record synchroniser (src/jira-scripts/*.py): the      *)
(* create, push and pull entry points, each a batch driver (main) around a *)
(* per-document handler.  A document is modelled by the front-matter lines *)
(* the handlers read and rewrite; every front-matter scalar is a pair      *)
(* (form, val): how the value is written in the text (double-quoted,       *)
(* single-quoted, bare, or the key absent) and the text between the        *)
(* quotes.  The remote service is a black box: every remote call draws its *)
(* response from the set of responses the service can give.  A handler is  *)
(* an operator returning the set of its possible outcomes (one per         *)
(* combination of remote responses on the path taken).                     *)
(***************************************************************************)
EXTENDS Integers, Sequences, FiniteSets, TLC

\* ---------------------------------------------------------------- bounds
MaxRuns == 2      \* runs of an entry point in one behaviour
MaxFiles == 2     \* length of the expanded file list of a run
MaxIssues == 3    \* issues the remote service creates in one behaviour
\* nodes of a rich-text tree
MaxNodes == 3

\* ------------------------------------------------------ program constants
CF_SPRINT == "customfield_10020"
CF_PARENT_LINK == "customfield_10014"
CF_PM_OWNER == "customfield_10246"
CF_ACCEPTANCE == "customfield_10256"
CF_PROBLEM_STATEMENT == "customfield_10322"
SPRINT_CLOSED_MSG == "can be assigned only active or future sprints"

None == "<None>"          \* Python's None where a string is optional

\* keys the remote service hands out, in order of creation
KeyNames == <<"WOR-1", "WOR-2", "WOR-3", "WOR-4", "WOR-5", "WOR-6">>
FeatureKey == "WOR-900"   \* an existing Feature / Epic used as parent

\* ------------------------------------------------------------ small helpers
\* str.strip() on the values of the model: " " is the whitespace-only string
Strip(v) == IF v = " " THEN "" ELSE v

EmptyFields == [x \in {} |-> ""]
Put(f, k, v) == [x \in DOMAIN f \cup {k} |-> IF x = k THEN v ELSE f[x]]
PutIf(c, f, k, v) == IF c THEN Put(f, k, v) ELSE f
\* {k: v for k, v in fields.items() if k != key}
Without(f, k) == [x \in DOMAIN f \ {k} |-> f[x]]

KV(form, val) == [form |-> form, val |-> val]

\* dequoted value of a "key: value" front-matter line ("" when the key is absent)
Scalar(kv) == IF kv.form = "absent" THEN "" ELSE kv.val

\* ------------------------------------------------------------ remote calls
\* a call as the log keeps it: ok is FALSE when it raised JiraApiError, msg
\* are the phrases of the error body the handlers look for
\* the fields of an issue as GET /issue returns them: the user objects
\* (NoUser: null), the sprint field (null, a list of sprints or one sprint),
\* the estimate (null or a number)
User(email, acct) == [emailAddress |-> email, accountId |-> acct]
NoUser == User(None, None)
Sprint(type, ids) == [type |-> type, ids |-> ids]
Points(null, n) == [null |-> null, n |-> n]
Issue(status, assignee, parent, team, sprint, points, pm_owner, labels) ==
    [status |-> status, assignee |-> assignee, parent |-> parent, team |-> team,
     sprint |-> sprint, points |-> points, pm_owner |-> pm_owner, labels |-> labels]
NoIssue == Issue("", NoUser, "", "", Sprint("null", <<>>), Points(TRUE, 0), NoUser, <<>>)

Call(op, key, fields, ok) ==
    [op |-> op, key |-> key, fields |-> fields, ok |-> ok, msg |-> {}, status |-> "", transitions |-> <<>>,
     issue |-> NoIssue]

WriteOps == {"create", "update", "transition"}

\* a JiraApiError message is modelled by the phrases the handlers look for
ErrMsgs == SUBSET {SPRINT_CLOSED_MSG, "parent"}
UpdateResponses == {[ok |-> TRUE, msg |-> {}]} \cup {[ok |-> FALSE, msg |-> m] : m \in ErrMsgs}

\* POST /issue: HTTP error, a body without "key", or the next fresh key
\* (the service creates at most MaxIssues issues)
CreateResponses(k) ==
    {[ok |-> FALSE, key |-> ""], [ok |-> TRUE, key |-> ""]}
    \cup (IF k <= MaxIssues THEN {[ok |-> TRUE, key |-> KeyNames[k]]} ELSE {})

\* ------------------------------------------------------------ user lookup
AccountIdLike == {"712020:abcdef01"}      \* values matching ^[A-Za-z0-9:_-]{10,}$ without "@"
Lower(s) == IF s = "Dev@Example.com" THEN "dev@example.com" ELSE s

\* GET /user/search: HTTP error, a non-list body, or a list of users
SearchResponses ==
    {[ok |-> FALSE, list |-> FALSE, users |-> <<>>],
     [ok |-> TRUE, list |-> FALSE, users |-> <<>>],
     [ok |-> TRUE, list |-> TRUE, users |-> <<>>],
     [ok |-> TRUE, list |-> TRUE, users |-> <<User("dev@example.com", "acc-1")>>],
     [ok |-> TRUE, list |-> TRUE, users |-> <<User("other@example.com", "acc-2"), User("Dev@Example.com", "acc-1")>>],
     [ok |-> TRUE, list |-> TRUE, users |-> <<User("", ""), User("other@example.com", "acc-2")>>]}

Min(S) == CHOOSE x \in S : \A y \in S : x <= y
\* u.get("accountId") of a user; a missing or empty id is falsy for the callers
AccountOf(u) == IF u.accountId = "" THEN None ELSE u.accountId

Lookup(calls, acct, raised) == [calls |-> calls, acct |-> acct, raised |-> raised]

jira_find_user_account_id(query, allow_network) ==
    LET q == Strip(query)
        ExactEmail(u) == u.emailAddress # "" /\ Lower(u.emailAddress) = Lower(q)
        HasAccount(u) == u.accountId # ""
        Result(r) ==
            IF ~r.ok THEN Lookup(<<Call("search", q, EmptyFields, FALSE)>>, None, TRUE)
            ELSE IF ~r.list THEN Lookup(<<Call("search", q, EmptyFields, TRUE)>>, None, FALSE)
            ELSE LET exact == {i \in 1..Len(r.users) : ExactEmail(r.users[i])}
                     first == {i \in 1..Len(r.users) : HasAccount(r.users[i])}
                 IN Lookup(<<Call("search", q, EmptyFields, TRUE)>>,
                           IF exact # {} THEN AccountOf(r.users[Min(exact)])
                           ELSE IF first # {} THEN AccountOf(r.users[Min(first)])
                           ELSE None,
                           FALSE)
    IN IF q = "" THEN {Lookup(<<>>, None, FALSE)}
       ELSE IF q \in AccountIdLike THEN {Lookup(<<>>, q, FALSE)}
       ELSE IF ~allow_network THEN {Lookup(<<>>, None, FALSE)}
       ELSE {Result(r) : r \in SearchResponses}

\* ------------------------------------------------------------ documents
\* A local record.  kind: "combo" (user_story: / subtask: sections) or
\* "simple" (top-level keys: Epic, Feature).  json_ok: every fenced JSON
\* block of the body parses.  jk_first / sub_jk_first: the jira_key line is
\* the first line below its section header.  summary: a "## Summary"
\* section with text exists.  adf / sub_adf: the entity has rich-text (or,
\* for an Epic, Problem Statement) content for a secondary update.
\* form: "dq", "sq", "bare" or "absent"
File(name, doc) == [name |-> name, doc |-> doc]
\* what open() finds at a path where no file is
NoFile == File("<missing>", [kind |-> "none"])

\* ComboRecord with the story's jira_key read from the subtask section
ComboRecord_key_from_subtask(md) ==
    [story |-> [jira_key |-> Strip(Scalar(md.sub_jk)), parent_key |-> Strip(md.parent_key),
                status |-> Strip(md.status), sprint_id |-> Strip(md.sprint_id),
                pm_owner |-> Strip(md.pm_owner), assignee |-> Strip(md.assignee)],
     subtask |-> [jira_key |-> Strip(Scalar(md.sub_jk)), parent_key |-> Strip(Scalar(md.sub_pk)),
                  status |-> Strip(md.sub_status), assignee |-> Strip(md.sub_assignee)],
     story_adf |-> IF md.adf THEN Put(EmptyFields, CF_ACCEPTANCE, "adf") ELSE EmptyFields,
     subtask_adf |-> IF md.sub_adf THEN Put(EmptyFields, CF_ACCEPTANCE, "adf") ELSE EmptyFields]

\* _parse_section_kv + the dataclass construction of _parse_combo_record:
\* every value is dequoted, then stripped
ComboRecord(md) ==
    [story |-> [jira_key |-> Strip(Scalar(md.jk)), parent_key |-> Strip(md.parent_key),
                status |-> Strip(md.status), sprint_id |-> Strip(md.sprint_id),
                pm_owner |-> Strip(md.pm_owner), assignee |-> Strip(md.assignee)],
     subtask |-> [jira_key |-> Strip(Scalar(md.sub_jk)), parent_key |-> Strip(Scalar(md.sub_pk)),
                  status |-> Strip(md.sub_status), assignee |-> Strip(md.sub_assignee)],
     story_adf |-> IF md.adf THEN Put(EmptyFields, CF_ACCEPTANCE, "adf") ELSE EmptyFields,
     subtask_adf |-> IF md.sub_adf THEN Put(EmptyFields, CF_ACCEPTANCE, "adf") ELSE EmptyFields]

\* create_story_in_jira._parse_combo_record raises unless this holds
create_story_parse_combo_record_ok(md) ==
    /\ md.kind = "combo"                           \* "Missing 'user_story:' section"
    /\ ComboRecord(md).story.parent_key # ""
    /\ md.json_ok                                  \* _extract_adf_blocks

\* values matching ^-?\d+$ among the sprint ids of the model
IntLike == {"7", "-3"}
maybe_int(v) == IF Strip(v) \in IntLike THEN Strip(v) ELSE None

Build(calls, fields, raised) == [calls |-> calls, fields |-> fields, raised |-> raised]

\* f"<unresolved:{value}>"
Unresolved(v) == IF v = "dev@example.com" THEN "<unresolved:dev@example.com>" ELSE "<unresolved:?>"

\* WithAccounts that puts the placeholder in for every failed lookup
WithAccounts_placeholder_online(base, pm_owner, assignee, allow_network, placeholder) ==
    LET Set(f, k, v, l) ==
            IF l.acct # None THEN Put(f, k, l.acct)
            ELSE IF placeholder /\ v # "" THEN Put(f, k, Unresolved(v))
            ELSE f
    IN UNION { IF pm.raised THEN {Build(pm.calls, EmptyFields, TRUE)}
               ELSE { IF asg.raised THEN Build(pm.calls \o asg.calls, EmptyFields, TRUE)
                      ELSE Build(pm.calls \o asg.calls,
                                 Set(Set(base, CF_PM_OWNER, pm_owner, pm), "assignee", assignee, asg), FALSE)
                      : asg \in jira_find_user_account_id(assignee, allow_network) }
             : pm \in jira_find_user_account_id(pm_owner, allow_network) }

\* the owner and assignee lookups shared by the field builders: the second
\* lookup is only made when the first did not raise; placeholder is TRUE in
\* the builders that have the "elif value and not allow_network" branch
WithAccounts(base, pm_owner, assignee, allow_network, placeholder) ==
    LET Set(f, k, v, l) ==
            IF l.acct # None THEN Put(f, k, l.acct)
            ELSE IF placeholder /\ v # "" /\ ~allow_network THEN Put(f, k, Unresolved(v))
            ELSE f
    IN UNION { IF pm.raised THEN {Build(pm.calls, EmptyFields, TRUE)}
               ELSE { IF asg.raised THEN Build(pm.calls \o asg.calls, EmptyFields, TRUE)
                      ELSE Build(pm.calls \o asg.calls,
                                 Set(Set(base, CF_PM_OWNER, pm_owner, pm), "assignee", assignee, asg), FALSE)
                      : asg \in jira_find_user_account_id(assignee, allow_network) }
             : pm \in jira_find_user_account_id(pm_owner, allow_network) }

build_story_create_fields(record, allow_network) ==
    LET s == record.story
        f0 == [project |-> "WOR", issuetype |-> "10007", summary |-> "title"]
        f1 == PutIf(s.parent_key # "", f0, CF_PARENT_LINK, s.parent_key)
        f2 == PutIf(maybe_int(s.sprint_id) # None /\ Strip(s.sprint_id) # "", f1, CF_SPRINT, s.sprint_id)
    IN WithAccounts(f2, s.pm_owner, s.assignee, allow_network, FALSE)

build_story_adf_update_fields(record) == record.story_adf

\* build_subtask_create_fields with the Story's own parent as the parent
build_subtask_create_fields_feature_parent(record, story_key, allow_network) ==
    LET f0 == [project |-> "WOR", issuetype |-> "10184", parent |-> record.story.parent_key, summary |-> "title"]
    IN WithAccounts(f0, "", record.subtask.assignee, allow_network, FALSE)

build_subtask_create_fields(record, story_key, allow_network) ==
    LET f0 == [project |-> "WOR", issuetype |-> "10184", parent |-> story_key, summary |-> "title"]
    IN WithAccounts(f0, "", record.subtask.assignee, allow_network, FALSE)

build_subtask_adf_update_fields(record) == record.subtask_adf

\* re.sub of value "..." after the first jira_key: line in double-quoted form
\* found at or below the section header; the story section precedes the
\* subtask section, so the scan started at user_story: runs on into subtask:
update_file_with_jira_keys(md, story_key, subtask_key) ==
    LET m1 == IF md.jk.form = "dq" THEN [md EXCEPT !.jk.val = story_key]
              ELSE IF md.sub_jk.form = "dq" THEN [md EXCEPT !.sub_jk.val = story_key]
              ELSE md
        truthy == subtask_key # None /\ subtask_key # ""
        m2 == IF truthy /\ m1.sub_jk.form = "dq" THEN [m1 EXCEPT !.sub_jk.val = subtask_key] ELSE m1
        m3 == IF truthy /\ m2.sub_pk.form = "dq" THEN [m2 EXCEPT !.sub_pk.val = story_key] ELSE m2
    IN m3

\* a file named "DRAFT - ..." is renamed to "<key> - ....md"
rename_file_with_jira_key(name, jira_key) == IF name = "draft" THEN jira_key ELSE name

\* ------------------------------------------------------------ handlers
\* ret: "True" / "False" (the handler's return value) or "raise" (an
\* exception left the handler); issued: issues the remote created
Out(ret, calls, file, issued) ==
    [ret |-> ret, calls |-> calls, file |-> file, issued |-> issued, warnings |-> <<>>,
     printed |-> <<>>]
\* the outcome of a --dry-run: the field sets printed as JSON
Printed(o, sets) == [o EXCEPT !.printed = SelectSeq(sets, LAMBDA f : f # EmptyFields)]

\* create_story_in_jira._process_single_file, lines 798-833: after the Story
\* exists; calls are the calls made so far
create_story_subtask_part(file, record, story_key, calls, allow_network, k) ==
    LET Written(cs, subtask_key, n) ==
            Out("True", cs,
                File(rename_file_with_jira_key(file.name, story_key),
                     update_file_with_jira_keys(file.doc, story_key, subtask_key)), n)
        adf == build_subtask_adf_update_fields(record)
        AfterCreate(cs, r) ==
            IF ~r.ok THEN {Written(Append(cs, Call("create", "", r.fields, FALSE)), None, 1)}
            ELSE IF r.key = "" THEN {Written(Append(cs, Call("create", "", r.fields, TRUE)), "", 1)}
            ELSE LET cs1 == Append(cs, Call("create", r.key, r.fields, TRUE))
                 IN IF adf = EmptyFields THEN {Written(cs1, r.key, 2)}
                    ELSE {Written(Append(cs1, Call("update", r.key, adf, u)), r.key, 2) : u \in BOOLEAN}
    IN IF record.subtask.jira_key # "" THEN {Written(calls, None, 1)}
       ELSE UNION { IF b.raised
                    THEN {Out("False", calls \o b.calls, file, 1)}    \* caught at line 835
                    ELSE UNION { AfterCreate(calls \o b.calls, [ok |-> r.ok, key |-> r.key, fields |-> b.fields])
                                 : r \in CreateResponses(k + 1) }
                  : b \in build_subtask_create_fields(record, story_key, allow_network) }

create_story_process_single_file(file, dry_run, creds, k) ==
    IF file.name = NoFile.name THEN {Out("False", <<>>, file, 0)}
    ELSE IF ~create_story_parse_combo_record_ok(file.doc) THEN {Out("False", <<>>, file, 0)}
    ELSE LET record == ComboRecord(file.doc)
             allow_network == creds /\ ~dry_run
             adf == build_story_adf_update_fields(record)
             AfterStory(cs, r, fields) ==
                 IF ~r.ok THEN {Out("False", Append(cs, Call("create", "", fields, FALSE)), file, 0)}
                 ELSE IF r.key = "" THEN {Out("False", Append(cs, Call("create", "", fields, TRUE)), file, 0)}
                 ELSE LET cs1 == Append(cs, Call("create", r.key, fields, TRUE))
                      IN IF adf = EmptyFields
                         THEN create_story_subtask_part(file, record, r.key, cs1, allow_network, k)
                         ELSE UNION { create_story_subtask_part(file, record, r.key,
                                          Append(cs1, Call("update", r.key, adf, u)), allow_network, k)
                                      : u \in BOOLEAN }
         IN IF record.story.jira_key # "" THEN {Out("True", <<>>, file, 0)}
            ELSE IF ~creds /\ ~dry_run THEN {Out("False", <<>>, file, 0)}
            ELSE UNION { IF b.raised THEN {Out("raise", b.calls, file, 0)}   \* line 770 is outside any try
                         ELSE IF dry_run THEN {Printed(Out("True", b.calls, file, 0), <<b.fields, adf>>)}
                         ELSE UNION { AfterStory(b.calls, r, b.fields) : r \in CreateResponses(k) }
                       : b \in build_story_create_fields(record, allow_network) }

\* ------------------------------------------------------------ create Epic
\* _parse_epic_record: stripped lines starting with "key:", dequoted by
\* _parse_yaml_value, stripped again in EpicMeta
EpicRecord(md) ==
    [epic |-> [jira_key |-> Strip(Scalar(md.jk)), status |-> Strip(md.status),
               sprint_id |-> Strip(md.sprint_id), pm_owner |-> Strip(md.pm_owner),
               assignee |-> Strip(md.assignee)],
     description_adf |-> md.adf,
     problem_statement |-> md.adf]

create_epic_parse_epic_record_ok(md) ==
    /\ md.kind = "simple"
    /\ md.summary                  \* "Summary is required (## Summary section)"
    /\ md.json_ok

build_epic_create_fields(record, allow_network) ==
    LET e == record.epic
        f0 == [project |-> "WOR", issuetype |-> "10186", summary |-> "title"]
        f1 == PutIf(maybe_int(e.sprint_id) # None /\ Strip(e.sprint_id) # "", f0, CF_SPRINT, e.sprint_id)
    IN { IF b.raised THEN b
         ELSE Build(b.calls, PutIf(record.description_adf, b.fields, "description", "adf"), FALSE)
         : b \in WithAccounts(f1, e.pm_owner, e.assignee, allow_network, FALSE) }

build_epic_update_fields(record) ==
    IF record.problem_statement THEN Put(EmptyFields, CF_PROBLEM_STATEMENT, "text") ELSE EmptyFields

\* re.sub(r'^(jira_key:\s*)"[^"]*"', ...): only a double-quoted value is rewritten
update_file_with_jira_key(md, jira_key) ==
    IF md.jk.form = "dq" THEN [md EXCEPT !.jk.val = jira_key] ELSE md

create_epic_process_single_file(file, dry_run, creds, k) ==
    IF file.name = NoFile.name THEN {Out("False", <<>>, file, 0)}
    ELSE IF ~create_epic_parse_epic_record_ok(file.doc) THEN {Out("False", <<>>, file, 0)}
    ELSE LET record == EpicRecord(file.doc)
             allow_network == creds /\ ~dry_run
             update_fields == build_epic_update_fields(record)
             Written(cs, jira_key) ==
                 Out("True", cs, File(rename_file_with_jira_key(file.name, jira_key),
                                      update_file_with_jira_key(file.doc, jira_key)), 1)
             AfterCreate(cs, r, fields) ==
                 IF ~r.ok THEN {Out("False", Append(cs, Call("create", "", fields, FALSE)), file, 0)}
                 ELSE IF r.key = "" THEN {Out("False", Append(cs, Call("create", "", fields, TRUE)), file, 0)}
                 ELSE LET cs1 == Append(cs, Call("create", r.key, fields, TRUE))
                      IN IF update_fields = EmptyFields THEN {Written(cs1, r.key)}
                         ELSE {Written(Append(cs1, Call("update", r.key, update_fields, u)), r.key) : u \in BOOLEAN}
         IN IF record.epic.jira_key # "" THEN {Out("True", <<>>, file, 0)}
            ELSE IF ~creds /\ ~dry_run THEN {Out("False", <<>>, file, 0)}
            ELSE UNION { IF b.raised THEN {Out("raise", b.calls, file, 0)}   \* line 602 is outside any try
                         ELSE IF dry_run THEN {Printed(Out("True", b.calls, file, 0), <<b.fields, update_fields>>)}
                         ELSE UNION { AfterCreate(b.calls, r, b.fields) : r \in CreateResponses(k) }
                       : b \in build_epic_create_fields(record, allow_network) }

\* ------------------------------------------------------------ push
\* sync_to_jira._parse_combo_record raises unless this holds
sync_to_jira_parse_combo_record_ok(md) ==
    /\ md.kind = "combo"
    /\ ComboRecord(md).story.jira_key # ""          \* "user_story.jira_key is required"
    /\ ComboRecord(md).story.parent_key # ""
    /\ (ComboRecord(md).subtask.jira_key # ""
          => ComboRecord(md).subtask.parent_key = ComboRecord(md).story.jira_key)
    /\ md.json_ok

build_story_update(record, allow_network) ==
    LET s == record.story
        f1 == PutIf(maybe_int(s.sprint_id) # None /\ Strip(s.sprint_id) # "", EmptyFields, CF_SPRINT, s.sprint_id)
    IN { IF b.raised THEN b
         ELSE Build(b.calls, PutIf(CF_ACCEPTANCE \in DOMAIN record.story_adf, b.fields, CF_ACCEPTANCE, "adf"), FALSE)
         : b \in WithAccounts(f1, s.pm_owner, s.assignee, allow_network, TRUE) }

build_subtask_update(record, allow_network) ==
    LET s == record.subtask
        f0 == [parent |-> s.parent_key]
    IN { IF b.raised THEN b
         ELSE Build(b.calls, PutIf(CF_ACCEPTANCE \in DOMAIN record.subtask_adf, b.fields, CF_ACCEPTANCE, "adf"), FALSE)
         : b \in WithAccounts(f0, "", s.assignee, allow_network, TRUE) }

\* _parse_feature_record: jira_key is tested before it is stripped
FeatureRecord(md) ==
    [feature |-> [jira_key |-> Strip(Scalar(md.jk)), parent_key |-> Strip(md.parent_key),
                  status |-> Strip(md.status), sprint_id |-> Strip(md.sprint_id),
                  pm_owner |-> Strip(md.pm_owner), assignee |-> Strip(md.assignee)],
     summary |-> md.summary,
     adf_fields |-> IF md.adf THEN [description |-> "adf"] ELSE EmptyFields]

parse_feature_record_ok(md) ==
    /\ md.kind = "simple"
    /\ Scalar(md.jk) # ""                           \* "jira_key is required"
    /\ md.json_ok

build_feature_update(record, allow_network) ==
    LET f == record.feature
        f0 == PutIf(record.summary, EmptyFields, "summary", "title")
        f1 == PutIf(f.parent_key # "", f0, "parent", f.parent_key)
        f2 == PutIf(maybe_int(f.sprint_id) # None /\ Strip(f.sprint_id) # "", f1, CF_SPRINT, f.sprint_id)
    IN { IF b.raised THEN b
         ELSE Build(b.calls, PutIf("description" \in DOMAIN record.adf_fields, b.fields, "description", "adf"), FALSE)
         : b \in WithAccounts(f2, f.pm_owner, f.assignee, allow_network, TRUE) }

\* ------------------------------------------------------------ transitions
Transition(id, name, to) == [id |-> id, name |-> name, to |-> to]

\* GET /issue?fields=status: HTTP error or the current status name
StatusResponses ==
    {[ok |-> FALSE, name |-> ""], [ok |-> TRUE, name |-> "Done"], [ok |-> TRUE, name |-> "To Do"]}

\* GET /issue/transitions: HTTP error or the list of available transitions
TransitionsResponses ==
    {[ok |-> FALSE, transitions |-> <<>>],
     [ok |-> TRUE, transitions |-> <<>>],
     [ok |-> TRUE, transitions |-> <<Transition("31", "Start", "In Progress")>>],
     [ok |-> TRUE, transitions |-> <<Transition("21", "Done", "Closed"), Transition("11", "Finish", "Done")>>],
     [ok |-> TRUE, transitions |-> <<Transition("31", "Start", "In Progress"), Transition("21", "Done", "Closed")>>]}

\* outcome of the resolver: the calls it made and, when it raised, the
\* message of the exception with the destination names it lists
Step(calls, raised) == [calls |-> calls, raised |-> raised, message |-> "", available |-> <<>>]
Raise(calls, message, available) == [Step(calls, TRUE) EXCEPT !.message = message, !.available = available]

\* a resolver that takes no status for the desired one
is_current_never(current, desired) == FALSE
\* line 620: the issue is in the desired status already
is_current(current, desired) == Strip(current) = desired

\* a resolver that looks at the transitions' own names first
select_transition_by_name_first(transitions, desired) ==
    LET byTo == {i \in 1..Len(transitions) : transitions[i].to = desired}
        byName == {i \in 1..Len(transitions) : transitions[i].name = desired}
    IN IF byName # {} THEN transitions[Min(byName)].id
       ELSE IF byTo # {} THEN transitions[Min(byTo)].id
       ELSE None
\* lines 623-637: the id of the first transition that leads to the desired
\* status, else of the first one named like it, else none
select_transition(transitions, desired) ==
    LET byTo == {i \in 1..Len(transitions) : transitions[i].to = desired}
        byName == {i \in 1..Len(transitions) : transitions[i].name = desired}
    IN IF byTo # {} THEN transitions[Min(byTo)].id
       ELSE IF byName # {} THEN transitions[Min(byName)].id
       ELSE None

maybe_transition(issue_key, desired_status, dry_run) ==
    LET desired == Strip(desired_status)
        get(r) == [Call("get_issue", issue_key, EmptyFields, r.ok) EXCEPT !.status = r.name]
        list(t) == [Call("get_transitions", issue_key, EmptyFields, t.ok) EXCEPT !.transitions = t.transitions]
        Apply(cs, ts) ==
            LET transition_id == select_transition(ts, desired)
            IN IF transition_id = None
               THEN {Raise(cs, "No available transition", [i \in 1..Len(ts) |-> ts[i].to])}
               ELSE IF dry_run THEN {Step(cs, FALSE)}
               ELSE {LET cs2 == Append(cs, Call("transition", issue_key, [id |-> transition_id], ok))
                     IN IF ok THEN Step(cs2, FALSE) ELSE Raise(cs2, "HTTP", <<>>)
                     : ok \in BOOLEAN}
        Fetch(cs) ==
            UNION { IF ~t.ok THEN {Raise(Append(cs, list(t)), "HTTP", <<>>)}
                    ELSE Apply(Append(cs, list(t)), t.transitions)
                  : t \in TransitionsResponses }
    IN IF desired = "" THEN {Step(<<>>, FALSE)}
       ELSE UNION { IF ~r.ok THEN {Raise(<<get(r)>>, "HTTP", <<>>)}
                    ELSE IF is_current(r.name, desired) THEN {Step(<<get(r)>>, FALSE)}
                    ELSE Fetch(<<get(r)>>)
                  : r \in StatusResponses }

\* the field update of an entity with its one retry; done: the update
\* (or its retry) went through
Upd(calls, done) == [calls |-> calls, done |-> done]
Update(issue_key, f, r) == [Call("update", issue_key, f, r.ok) EXCEPT !.msg = r.msg]

\* update_story_fields with a retry that keeps the sprint field
update_story_fields_retry_same(story_key, story_fields) ==
    UNION { IF r.ok THEN {Upd(<<Update(story_key, story_fields, r)>>, TRUE)}
            ELSE IF SPRINT_CLOSED_MSG \in r.msg /\ CF_SPRINT \in DOMAIN story_fields
                 THEN {Upd(<<Update(story_key, story_fields, r),
                             Update(story_key, story_fields, r2)>>, r2.ok)
                       : r2 \in UpdateResponses}
                 ELSE {Upd(<<Update(story_key, story_fields, r)>>, FALSE)}
          : r \in UpdateResponses }

\* sync_to_jira._process_single_file, lines 701-718
update_story_fields(story_key, story_fields) ==
    UNION { IF r.ok THEN {Upd(<<Update(story_key, story_fields, r)>>, TRUE)}
            ELSE IF SPRINT_CLOSED_MSG \in r.msg /\ CF_SPRINT \in DOMAIN story_fields
                 THEN {Upd(<<Update(story_key, story_fields, r),
                             Update(story_key, Without(story_fields, CF_SPRINT), r2)>>, r2.ok)
                       : r2 \in UpdateResponses}
                 ELSE {Upd(<<Update(story_key, story_fields, r)>>, FALSE)}
          : r \in UpdateResponses }

\* update_subtask_fields that goes on to the transitions after a failure
update_subtask_fields_failure_ignored(subtask_key, subtask_fields) ==
    UNION { IF r.ok THEN {Upd(<<Update(subtask_key, subtask_fields, r)>>, TRUE)}
            ELSE IF "parent" \in r.msg
                 THEN {Upd(<<Update(subtask_key, subtask_fields, r),
                             Update(subtask_key, Without(subtask_fields, "parent"), r2)>>, TRUE)
                       : r2 \in UpdateResponses}
                 ELSE {Upd(<<Update(subtask_key, subtask_fields, r)>>, TRUE)}
          : r \in UpdateResponses }

\* update_subtask_fields with a retry after every rejection
update_subtask_fields_retry_any(subtask_key, subtask_fields) ==
    UNION { IF r.ok THEN {Upd(<<Update(subtask_key, subtask_fields, r)>>, TRUE)}
            ELSE {Upd(<<Update(subtask_key, subtask_fields, r),
                        Update(subtask_key, Without(subtask_fields, "parent"), r2)>>, r2.ok)
                  : r2 \in UpdateResponses}
          : r \in UpdateResponses }

\* sync_to_jira._process_single_file, lines 720-738
update_subtask_fields(subtask_key, subtask_fields) ==
    UNION { IF r.ok THEN {Upd(<<Update(subtask_key, subtask_fields, r)>>, TRUE)}
            ELSE IF "parent" \in r.msg
                 THEN {Upd(<<Update(subtask_key, subtask_fields, r),
                             Update(subtask_key, Without(subtask_fields, "parent"), r2)>>, r2.ok)
                       : r2 \in UpdateResponses}
                 ELSE {Upd(<<Update(subtask_key, subtask_fields, r)>>, FALSE)}
          : r \in UpdateResponses }

\* sync_feature_to_jira._process_single_file, lines 603-620
update_feature_fields(feature_key, feature_fields) ==
    UNION { IF r.ok THEN {Upd(<<Update(feature_key, feature_fields, r)>>, TRUE)}
            ELSE IF SPRINT_CLOSED_MSG \in r.msg /\ CF_SPRINT \in DOMAIN feature_fields
                 THEN {Upd(<<Update(feature_key, feature_fields, r),
                             Update(feature_key, Without(feature_fields, CF_SPRINT), r2)>>, r2.ok)
                       : r2 \in UpdateResponses}
                 ELSE {Upd(<<Update(feature_key, feature_fields, r)>>, FALSE)}
          : r \in UpdateResponses }

\* what the status-transition step leaves: the calls made and the
\* "transition warning" lines printed for the exceptions it caught
Logged(calls, warnings) == [calls |-> calls, warnings |-> warnings]
Warned(warnings, key, t) ==
    IF t.raised THEN Append(warnings, [key |-> key, message |-> t.message, available |-> t.available])
    ELSE warnings

\* transition_step that gives up the Subtask transition when the Story's failed
transition_step_stop_at_failure(keys, calls, dry_run, no_transition, creds) ==
    IF no_transition \/ ~creds THEN {Logged(calls, <<>>)}
    ELSE UNION { IF Len(keys) = 1 \/ t.raised
                 THEN {Logged(calls \o t.calls, Warned(<<>>, keys[1].key, t))}
                 ELSE {Logged(calls \o t.calls \o u.calls, Warned(<<>>, keys[2].key, u))
                       : u \in maybe_transition(keys[2].key, keys[2].status, dry_run)}
               : t \in maybe_transition(keys[1].key, keys[1].status, dry_run) }

\* transition_step that does not pass --dry-run on to maybe_transition
transition_step_not_dry(keys, calls, dry_run, no_transition, creds) ==
    IF no_transition \/ ~creds THEN {Logged(calls, <<>>)}
    ELSE LET first == {Logged(calls \o t.calls, Warned(<<>>, keys[1].key, t))
                       : t \in maybe_transition(keys[1].key, keys[1].status, FALSE)}
         IN IF Len(keys) = 1 THEN first
            ELSE UNION { {Logged(c.calls \o t.calls, Warned(c.warnings, keys[2].key, t))
                          : t \in maybe_transition(keys[2].key, keys[2].status, FALSE)}
                         : c \in first }

\* the status-transition step of the push handlers (lines 740-752 / 622-629)
transition_step(keys, calls, dry_run, no_transition, creds) ==
    IF no_transition \/ ~creds THEN {Logged(calls, <<>>)}
    ELSE LET first == {Logged(calls \o t.calls, Warned(<<>>, keys[1].key, t))
                       : t \in maybe_transition(keys[1].key, keys[1].status, dry_run)}
         IN IF Len(keys) = 1 THEN first
            ELSE UNION { {Logged(c.calls \o t.calls, Warned(c.warnings, keys[2].key, t))
                          : t \in maybe_transition(keys[2].key, keys[2].status, dry_run)}
                         : c \in first }

sync_to_jira_process_single_file(file, dry_run, no_transition, creds) ==
    IF file.name = NoFile.name THEN {Out("False", <<>>, file, 0)}
    ELSE IF ~sync_to_jira_parse_combo_record_ok(file.doc) THEN {Out("False", <<>>, file, 0)}
    ELSE IF ~creds /\ ~dry_run THEN {Out("False", <<>>, file, 0)}
    ELSE LET record == ComboRecord(file.doc)
             story_key == record.story.jira_key
             subtask_key == record.subtask.jira_key
             allow_network == creds /\ ~dry_run
             keys == IF subtask_key # ""
                     THEN <<[key |-> story_key, status |-> record.story.status],
                            [key |-> subtask_key, status |-> record.subtask.status]>>
                     ELSE <<[key |-> story_key, status |-> record.story.status]>>
             Finish(cs, pr) == {[Out("True", c.calls, file, 0) EXCEPT !.warnings = c.warnings, !.printed = pr]
                                : c \in transition_step(keys, cs, dry_run, no_transition, creds)}
             Subtask(cs, subtask_fields) ==
                 IF subtask_key = "" THEN Finish(cs, <<>>)
                 ELSE UNION { IF u.done THEN Finish(cs \o u.calls, <<>>) ELSE {Out("False", cs \o u.calls, file, 0)}
                              : u \in update_subtask_fields(subtask_key, subtask_fields) }
             Story(cs, story_fields, subtask_fields) ==
                 IF dry_run
                 THEN Finish(cs, IF subtask_key = "" THEN <<story_fields>> ELSE <<story_fields, subtask_fields>>)
                 ELSE UNION { IF u.done THEN Subtask(cs \o u.calls, subtask_fields)
                              ELSE {Out("False", cs \o u.calls, file, 0)}
                              : u \in update_story_fields(story_key, story_fields) }
         IN UNION { IF sb.raised THEN {Out("raise", sb.calls, file, 0)}      \* lines 682-683 are outside any try
                    ELSE UNION { IF tb.raised THEN {Out("raise", sb.calls \o tb.calls, file, 0)}
                                 ELSE Story(sb.calls \o tb.calls, sb.fields, tb.fields)
                                 : tb \in build_subtask_update(record, allow_network) }
                  : sb \in build_story_update(record, allow_network) }

sync_feature_to_jira_process_single_file(file, dry_run, no_transition, creds) ==
    IF file.name = NoFile.name THEN {Out("False", <<>>, file, 0)}
    ELSE IF ~parse_feature_record_ok(file.doc) THEN {Out("False", <<>>, file, 0)}
    ELSE IF ~creds /\ ~dry_run THEN {Out("False", <<>>, file, 0)}
    ELSE LET record == FeatureRecord(file.doc)
             feature_key == record.feature.jira_key
             allow_network == creds /\ ~dry_run
             keys == <<[key |-> feature_key, status |-> record.feature.status]>>
             Finish(cs, pr) == {[Out("True", c.calls, file, 0) EXCEPT !.warnings = c.warnings, !.printed = pr]
                                : c \in transition_step(keys, cs, dry_run, no_transition, creds)}
             Feature(cs, feature_fields) ==
                 IF dry_run THEN Finish(cs, <<feature_fields>>)
                 ELSE UNION { IF u.done THEN Finish(cs \o u.calls, <<>>) ELSE {Out("False", cs \o u.calls, file, 0)}
                              : u \in update_feature_fields(feature_key, feature_fields) }
         IN UNION { IF b.raised THEN {Out("raise", b.calls, file, 0)}        \* line 594 is outside any try
                    ELSE Feature(b.calls, b.fields)
                  : b \in build_feature_update(record, allow_network) }

\* ------------------------------------------------------------ pull
\* the issue fields the pull handlers read, after _parse_issue_data /
\* _parse_epic_data / _parse_feature_data
IssueData(status, assignee, parent_key, sprint_id, pm_owner) ==
    [status |-> status, assignee |-> assignee, parent_key |-> parent_key,
     sprint_id |-> sprint_id, pm_owner |-> pm_owner, team_id |-> "", story_points |-> "", labels |-> <<>>]
NoData == IssueData(None, None, None, None, None)     \* subtask_data = None

\* _parse_issue_data, _parse_epic_data, _parse_feature_data: the assignee
\* is the user's emailAddress, the owner the emailAddress or else the
\* accountId, the sprint the id of the first list element or of the dict,
\* the estimate str() of the number
parse_issue_data(issue) ==
    LET assignee == IF issue.assignee = NoUser THEN "" ELSE issue.assignee.emailAddress
        pm_owner == IF issue.pm_owner = NoUser THEN ""
                    ELSE IF issue.pm_owner.emailAddress # "" THEN issue.pm_owner.emailAddress
                    ELSE issue.pm_owner.accountId
        sprint_id == IF issue.sprint.type \in {"list", "dict"} /\ Len(issue.sprint.ids) > 0
                     THEN issue.sprint.ids[1] ELSE ""
        story_points == IF issue.points.null THEN "" ELSE ToString(issue.points.n)
    IN [IssueData(issue.status, assignee, issue.parent, sprint_id, pm_owner)
          EXCEPT !.team_id = issue.team, !.story_points = story_points, !.labels = issue.labels]

\* the issues of the remote service
Issues ==
    {Issue("Done", User("dev@example.com", "712020:abcdef01"), FeatureKey, "team-1",
           Sprint("list", <<"7", "8">>), Points(FALSE, 5), NoUser, <<"backend">>),
     Issue("To Do", NoUser, "", "", Sprint("null", <<>>), Points(TRUE, 0),
           User("pm@example.com", "712020:abcdef02"), <<>>),
     Issue("In Review", User("", "712020:abcdef01"), FeatureKey, "team-1",
           Sprint("dict", <<"9">>), Points(FALSE, 0), User("", "712020:abcdef02"), <<"backend", "api">>)}

\* GET /issue: HTTP error or the issue
IssueResponses ==
    {[ok |-> FALSE, issue |-> NoIssue, data |-> IssueData("", "", "", "", "")]}
    \cup {[ok |-> TRUE, issue |-> i, data |-> parse_issue_data(i)] : i \in Issues}

\* r'user_story:\s*\n\s*jira_key:\s*"([^"]+)"': the key line directly below
\* the header, double-quoted and not empty
NestedKeyMatch(md, jk, first) == md.kind = "combo" /\ first /\ jk.form = "dq" /\ jk.val # ""
\* r'^jira_key:\s*"([^"]+)"' with re.MULTILINE
TopLevelKeyMatch(md) == md.kind = "simple" /\ md.jk.form = "dq" /\ md.jk.val # ""

\* pull_from_jira.sync_file_from_jira, lines 424-553: the front matter is
\* rebuilt from the keys found in the text and the fetched data; the body
\* is kept
pull_rewrite(md, story_key, subtask_key, story_data, subtask_data) ==
    LET existing_subtask_key ==
            IF md.kind = "simple" THEN (IF subtask_data # NoData THEN subtask_key ELSE "")
            ELSE IF NestedKeyMatch(md, md.sub_jk, md.sub_jk_first) THEN md.sub_jk.val
            ELSE IF subtask_key # None THEN subtask_key ELSE ""
    IN [md EXCEPT !.kind = "combo",
                  !.jk = KV("dq", story_key), !.jk_first = TRUE,
                  !.parent_key = story_data.parent_key,
                  !.status = story_data.status,
                  !.sprint_id = story_data.sprint_id,
                  !.pm_owner = story_data.pm_owner,
                  !.assignee = story_data.assignee,
                  !.team_id = story_data.team_id,
                  !.story_points = story_data.story_points,
                  !.labels = story_data.labels,
                  !.sub_jk = KV("dq", existing_subtask_key), !.sub_jk_first = TRUE,
                  !.sub_pk = KV("dq", story_key),
                  !.sub_status = IF subtask_data # NoData THEN subtask_data.status ELSE "Dev Ready",
                  !.sub_assignee = IF subtask_data # NoData THEN subtask_data.assignee ELSE ""]

sync_file_from_jira(file, dry_run, creds) ==
    IF file.name = NoFile.name THEN {Out("False", <<>>, file, 0)}
    ELSE LET md == file.doc
             nested == NestedKeyMatch(md, md.jk, md.jk_first)
             story_key == md.jk.val
             subtask_key == IF NestedKeyMatch(md, md.sub_jk, md.sub_jk_first) THEN md.sub_jk.val ELSE None
             get(key, r) == [Call("get_issue", key, EmptyFields, r.ok) EXCEPT !.issue = r.issue]
             Write(cs, sd, td) ==
                 IF dry_run THEN Out("True", cs, file, 0)
                 ELSE Out("True", cs, File(file.name, pull_rewrite(md, story_key, subtask_key, sd, td)), 0)
             AfterStory(cs, sd) ==
                 IF subtask_key = None THEN {Write(cs, sd, NoData)}
                 ELSE { IF ~t.ok THEN Out("False", Append(cs, get(subtask_key, t)), file, 0)
                        ELSE Write(Append(cs, get(subtask_key, t)), sd, t.data)
                        : t \in IssueResponses }
         IN IF ~nested /\ ~TopLevelKeyMatch(md) THEN {Out("False", <<>>, file, 0)}
            ELSE IF ~creds THEN {Out("False", <<>>, file, 0)}     \* _env raises inside jira_get_issue
            ELSE UNION { IF ~r.ok THEN {Out("False", <<get(story_key, r)>>, file, 0)}
                         ELSE AfterStory(<<get(story_key, r)>>, r.data)
                       : r \in IssueResponses }

\* _update_yaml_field on a top-level scalar: the value is replaced, or the
\* line inserted when the key was absent
pull_simple_rewrite(md, data, with_parent) ==
    [md EXCEPT !.status = data.status, !.assignee = data.assignee,
               !.sprint_id = data.sprint_id, !.pm_owner = data.pm_owner,
               !.team_id = data.team_id, !.story_points = data.story_points, !.labels = data.labels,
               !.parent_key = IF with_parent THEN data.parent_key ELSE md.parent_key]

\* sync_simple_from_jira that rewrites the file in a dry run too
sync_simple_from_jira_ignoring_dry_run(file, dry_run, creds, with_parent) ==
    IF file.name = NoFile.name THEN {Out("False", <<>>, file, 0)}
    ELSE LET md == file.doc
             key == md.jk.val
             get(r) == [Call("get_issue", key, EmptyFields, r.ok) EXCEPT !.issue = r.issue]
         IN IF ~TopLevelKeyMatch(md) THEN {Out("False", <<>>, file, 0)}
            ELSE IF ~creds THEN {Out("False", <<>>, file, 0)}
            ELSE { IF ~r.ok THEN Out("False", <<get(r)>>, file, 0)
                   ELSE Out("True", <<get(r)>>,
                            File(file.name, pull_simple_rewrite(md, r.data, with_parent)), 0)
                   : r \in IssueResponses }

\* pull_epic_from_jira.sync_epic_from_jira and
\* pull_feature_from_jira.sync_feature_from_jira (with_parent)
sync_simple_from_jira(file, dry_run, creds, with_parent) ==
    IF file.name = NoFile.name THEN {Out("False", <<>>, file, 0)}
    ELSE LET md == file.doc
             key == md.jk.val
             get(r) == [Call("get_issue", key, EmptyFields, r.ok) EXCEPT !.issue = r.issue]
         IN IF ~TopLevelKeyMatch(md) THEN {Out("False", <<>>, file, 0)}
            ELSE IF ~creds THEN {Out("False", <<>>, file, 0)}
            ELSE { IF ~r.ok THEN Out("False", <<get(r)>>, file, 0)
                   ELSE IF dry_run THEN Out("True", <<get(r)>>, file, 0)
                   ELSE Out("True", <<get(r)>>,
                            File(file.name, pull_simple_rewrite(md, r.data, with_parent)), 0)
                   : r \in IssueResponses }

sync_epic_from_jira(file, dry_run, creds) == sync_simple_from_jira(file, dry_run, creds, FALSE)
sync_feature_from_jira(file, dry_run, creds) == sync_simple_from_jira(file, dry_run, creds, TRUE)

\* ------------------------------------------------------------ rich text
\* a node of a rich-text (ADF) tree: its marks and its children, held in
\* the list-valued field content or in another list-valued field
Mark(type) == [type |-> type]
Node(marks, content, rows) == [marks |-> marks, content |-> content, rows |-> rows]
has_code(marks) == \E i \in DOMAIN marks : marks[i].type = "code"
has_strong(marks) == \E i \in DOMAIN marks : marks[i].type = "strong"
IsCode(m) == m.type = "code"

\* a normalizer that keeps the marks other than code of a node with both
normalize_marks_drop_code(marks) ==
    IF (\E i \in DOMAIN marks : marks[i].type = "code") /\ (\E i \in DOMAIN marks : marks[i].type = "strong")
    THEN SelectSeq(marks, LAMBDA m : m.type # "code")
    ELSE marks
\* a normalizer that takes one mark other than code away at each pass
normalize_marks_one_at_a_time(marks) ==
    IF has_code(marks) /\ \E i \in DOMAIN marks : ~IsCode(marks[i])
    THEN LET first == Min({i \in DOMAIN marks : ~IsCode(marks[i])})
         IN [i \in 1..(Len(marks) - 1) |-> IF i < first THEN marks[i] ELSE marks[i + 1]]
    ELSE marks
\* lines 477-482: with both code and strong among the marks only the
\* code marks are kept
normalize_marks(marks) ==
    IF has_code(marks) /\ has_strong(marks) THEN SelectSeq(marks, IsCode) ELSE marks

\* a normalizer that visits the content field only
RECURSIVE normalize_content_only(_)
normalize_content_only(adf) ==
    Node(normalize_marks(adf.marks),
         [i \in DOMAIN adf.content |-> normalize_content_only(adf.content[i])],
         adf.rows)
\* _normalize_adf_marks: a copy of the tree in which normalize_node has
\* visited every dict and every item of every list
RECURSIVE normalize_adf_marks(_)
normalize_adf_marks(adf) ==
    Node(normalize_marks(adf.marks),
         [i \in DOMAIN adf.content |-> normalize_adf_marks(adf.content[i])],
         [i \in DOMAIN adf.rows |-> normalize_adf_marks(adf.rows[i])])

\* ------------------------------------------------------------ state
VARIABLES
    adf,              \* a rich-text tree handed to the mark normalizer
    out,              \* what the normalizer returned, call after call
    text,             \* a document text handed to one of the text functions
    parsed,           \* what the text functions returned for it
    fs,               \* the local files: title -> File (name, content)
    tool,             \* the entry point of the current run
    dry_run,          \* --dry-run
    no_transition,    \* --no-transition
    creds,            \* the three credential values are all set
    expanded_files,   \* main: the expanded file list (paths)
    idx,              \* main: position of the loop in expanded_files
    success_count,
    failed_count,
    phase,            \* "idle" (no process), "running" (in the loop of main), "done" (exiting)
    exit_code,        \* exit status of the process, -1 while it runs
    summary,          \* the "Summary: ..." line was printed
    interrupted,      \* a KeyboardInterrupt was raised in the loop
    calls,            \* remote calls issued for the last processed document
    ret,              \* outcome of the last processed document
    warnings,         \* transition warnings printed for the last processed document
    printed,          \* field sets printed with --dry-run for the last processed document
    pre,              \* the file as the last processed document found it
    next_key,         \* index of the key the remote service hands out next
    created,          \* title -> primary entities created for that record
    runs              \* runs started

vars == <<adf, out, text, parsed, fs, tool, dry_run, no_transition, creds, expanded_files, idx, success_count,
          failed_count, phase, exit_code, summary, interrupted, calls, ret, warnings, printed, pre,
          next_key, created, runs>>

CreateTools == {"create_story", "create_epic"}
PushTools == {"sync_to_jira", "sync_feature_to_jira"}
PullTools == {"pull_from_jira", "pull_epic_from_jira", "pull_feature_from_jira"}
ComboTools == {"create_story", "sync_to_jira", "pull_from_jira"}

Path(t, name) == [t |-> t, name |-> name]
MissingPath == Path(0, NoFile.name)
\* open(path)
Open(path) ==
    IF path.t \in DOMAIN fs /\ fs[path.t].name = path.name THEN fs[path.t] ELSE NoFile

\* the paths a run is given: files of the kind the entry point is written
\* for (pull_from_jira reads both kinds) and, with missing, a path where no
\* file is
Candidates(tl, missing) ==
    {Path(t, fs[t].name) : t \in {x \in DOMAIN fs :
        tl = "pull_from_jira" \/ (fs[x].doc.kind = "combo" <=> tl \in ComboTools)}}
    \cup (IF missing THEN {MissingPath} ELSE {})

Batches(tl, missing) == UNION {[1..n -> Candidates(tl, missing)] : n \in 0..MaxFiles}

\* main up to the loop: arguments, environment, expansion of the file list;
\* limit bounds the runs of the behaviour
StartRun(tools, limit, missing) ==
    /\ phase = "idle"
    /\ runs < limit
    /\ \E tl \in tools, d \in BOOLEAN, nt \in BOOLEAN, c \in BOOLEAN :
         /\ (nt => tl \in PushTools)
         /\ \E files \in Batches(tl, missing) :
              /\ tool' = tl
              /\ dry_run' = d
              /\ no_transition' = nt
              /\ creds' = c
              /\ expanded_files' = files
              /\ phase' = IF files = <<>> THEN "done" ELSE "running"      \* "No files found to process."
              /\ exit_code' = IF files = <<>> THEN 1 ELSE -1
    /\ idx' = 1
    /\ success_count' = 0
    /\ failed_count' = 0
    /\ summary' = FALSE
    /\ interrupted' = FALSE
    /\ calls' = <<>>
    /\ ret' = "none"
    /\ warnings' = <<>>
    /\ printed' = <<>>
    /\ pre' = NoFile
    /\ runs' = runs + 1
    /\ UNCHANGED <<fs, next_key, created, adf, out, text, parsed>>

\* one iteration of the loop of main around a handler outcome o; catches:
\* the loop body is wrapped in "except Exception" (the pull entry points)
Iterate(o, catches) ==
    LET path == expanded_files[idx]
    IN /\ pre' = Open(path)
       /\ calls' = o.calls
       /\ ret' = o.ret
       /\ warnings' = o.warnings
       /\ printed' = o.printed
       /\ fs' = IF path.t \in DOMAIN fs /\ o.file.name # NoFile.name
                THEN [fs EXCEPT ![path.t] = o.file] ELSE fs
       /\ next_key' = next_key + o.issued
       /\ created' = IF o.issued > 0 THEN [created EXCEPT ![path.t] = @ + 1] ELSE created
       /\ IF o.ret = "True"
          THEN /\ success_count' = success_count + 1
               /\ idx' = idx + 1
               /\ UNCHANGED <<failed_count, phase, exit_code>>
          ELSE IF o.ret = "False" \/ catches
          THEN /\ failed_count' = failed_count + 1
               /\ idx' = idx + 1
               /\ UNCHANGED <<success_count, phase, exit_code>>
          ELSE /\ phase' = "done"           \* the exception leaves main: traceback, status 1
               /\ exit_code' = 1
               /\ UNCHANGED <<success_count, failed_count, idx>>
       /\ UNCHANGED <<tool, dry_run, no_transition, creds, expanded_files, summary, interrupted, runs,
                      adf, out, text, parsed>>

InLoop(tl) == phase = "running" /\ tool = tl /\ idx <= Len(expanded_files)

CreateStoryFile ==
    /\ InLoop("create_story")
    /\ \E o \in create_story_process_single_file(Open(expanded_files[idx]), dry_run, creds, next_key) :
         Iterate(o, FALSE)

CreateEpicFile ==
    /\ InLoop("create_epic")
    /\ \E o \in create_epic_process_single_file(Open(expanded_files[idx]), dry_run, creds, next_key) :
         Iterate(o, FALSE)

PushStoryFile ==
    /\ InLoop("sync_to_jira")
    /\ \E o \in sync_to_jira_process_single_file(Open(expanded_files[idx]), dry_run, no_transition, creds) :
         Iterate(o, FALSE)

PushFeatureFile ==
    /\ InLoop("sync_feature_to_jira")
    /\ \E o \in sync_feature_to_jira_process_single_file(Open(expanded_files[idx]), dry_run, no_transition, creds) :
         Iterate(o, FALSE)

PullStoryFile ==
    /\ InLoop("pull_from_jira")
    /\ \E o \in sync_file_from_jira(Open(expanded_files[idx]), dry_run, creds) : Iterate(o, TRUE)

PullEpicFile ==
    /\ InLoop("pull_epic_from_jira")
    /\ \E o \in sync_epic_from_jira(Open(expanded_files[idx]), dry_run, creds) : Iterate(o, TRUE)

PullFeatureFile ==
    /\ InLoop("pull_feature_from_jira")
    /\ \E o \in sync_feature_from_jira(Open(expanded_files[idx]), dry_run, creds) : Iterate(o, TRUE)

\* main after the loop: the summary and the return value
FinishRun ==
    /\ phase = "running"
    /\ idx > Len(expanded_files)
    /\ summary' = TRUE
    /\ exit_code' = IF failed_count = 0 THEN 0 ELSE 1
    /\ phase' = "done"
    /\ UNCHANGED <<fs, tool, dry_run, no_transition, creds, expanded_files, idx, success_count,
                   failed_count, interrupted, calls, ret, warnings, printed, pre, next_key, created, runs,
                   adf, out, text, parsed>>

\* exit status of the interpreter when KeyboardInterrupt leaves main
\* uncaught: 1, or death by SIGINT (130 to the shell), by interpreter version
UncaughtInterruptStatus == {1, 130}

\* Ctrl-C while the loop of main runs: the pull entry points catch
\* KeyboardInterrupt and return 130, the create and push entry points have
\* no handler
Interrupt ==
    /\ phase = "running"
    /\ idx <= Len(expanded_files)
    /\ interrupted' = TRUE
    /\ phase' = "done"
    /\ IF tool \in PullTools THEN exit_code' = 130
       ELSE exit_code' \in UncaughtInterruptStatus
    /\ UNCHANGED <<fs, tool, dry_run, no_transition, creds, expanded_files, idx, success_count,
                   failed_count, summary, calls, ret, warnings, printed, pre, next_key, created, runs,
                   adf, out, text, parsed>>

\* the process is gone: what is left is the files and the remote service
ExitProcess ==
    /\ phase = "done"
    /\ phase' = "idle"
    /\ tool' = "none"
    /\ dry_run' = FALSE
    /\ no_transition' = FALSE
    /\ creds' = FALSE
    /\ expanded_files' = <<>>
    /\ idx' = 1
    /\ success_count' = 0
    /\ failed_count' = 0
    /\ exit_code' = -1
    /\ summary' = FALSE
    /\ interrupted' = FALSE
    /\ calls' = <<>>
    /\ ret' = "none"
    /\ warnings' = <<>>
    /\ printed' = <<>>
    /\ pre' = NoFile
    /\ UNCHANGED <<fs, next_key, created, runs, adf, out, text, parsed>>

\* ------------------------------------------------------------ initial documents
\* a Story+Subtask draft as the template has it, and an Epic / Feature draft
BaseCombo ==
    [kind |-> "combo", jk |-> KV("dq", ""), jk_first |-> TRUE, parent_key |-> FeatureKey,
     status |-> "", sprint_id |-> "", pm_owner |-> "", assignee |-> "", adf |-> FALSE,
     team_id |-> "", story_points |-> "", labels |-> <<>>,
     summary |-> TRUE, json_ok |-> TRUE,
     sub_jk |-> KV("dq", ""), sub_jk_first |-> TRUE, sub_pk |-> KV("dq", ""),
     sub_status |-> "", sub_assignee |-> "", sub_adf |-> FALSE]
BaseSimple == [BaseCombo EXCEPT !.kind = "simple", !.sub_jk = KV("absent", ""), !.sub_pk = KV("absent", "")]

\* an existing record: the keys were assigned by an earlier creation
Existing(md) ==
    IF md.kind = "combo"
    THEN [md EXCEPT !.jk = KV("dq", "WOR-101"), !.sub_jk = KV("dq", "WOR-102"), !.sub_pk = KV("dq", "WOR-101")]
    ELSE [md EXCEPT !.jk = KV("dq", "WOR-201")]

NameOf(md) == IF Scalar(md.jk) = "" THEN "draft" ELSE "plain"
FilesOf(docs) == {File(NameOf(md), md) : md \in docs}

\* documents of the batch specification: a draft and an existing record of
\* each kind with an owner that needs a user search (the existing one with
\* a desired status), and a record whose JSON block is broken
BatchDocs(base) ==
    {[base EXCEPT !.assignee = "dev@example.com", !.adf = TRUE],
     Existing([base EXCEPT !.assignee = "dev@example.com", !.status = "Done"]),
     Existing([base EXCEPT !.json_ok = FALSE])}

\* documents of the create specification: drafts in the forms the parser
\* accepts for an empty jira_key, existing records, records that do not parse
CreateDocs ==
    {[BaseCombo EXCEPT !.adf = TRUE, !.sub_adf = TRUE, !.sub_assignee = "dev@example.com"],
     [BaseCombo EXCEPT !.assignee = "dev@example.com"],
     [BaseCombo EXCEPT !.jk = KV("sq", "")],
     [BaseCombo EXCEPT !.jk = KV("bare", ""), !.sub_jk = KV("absent", "")],
     [BaseCombo EXCEPT !.jk = KV("dq", " ")],
     [BaseCombo EXCEPT !.sub_jk = KV("dq", "WOR-102")],
     [BaseCombo EXCEPT !.parent_key = ""],
     Existing(BaseCombo),
     [Existing(BaseCombo) EXCEPT !.sub_jk = KV("dq", "")],
     [Existing(BaseCombo) EXCEPT !.jk = KV("sq", "WOR-101")],
     [Existing(BaseCombo) EXCEPT !.sub_pk = KV("dq", "WOR-999")],
     [BaseCombo EXCEPT !.sub_jk = KV("dq", "WOR-102"), !.sub_pk = KV("dq", "WOR-999")],
     Existing([BaseCombo EXCEPT !.json_ok = FALSE]),
     [BaseSimple EXCEPT !.adf = TRUE, !.assignee = "dev@example.com"],
     [BaseSimple EXCEPT !.jk = KV("sq", "")],
     [BaseSimple EXCEPT !.jk = KV("absent", "")],
     Existing(BaseSimple),
     Existing([BaseSimple EXCEPT !.summary = FALSE])}

\* documents of the push specification: existing records with a sprint, a
\* desired status, an owner to look up; records without a usable jira_key
PushDocs ==
    {Existing([BaseCombo EXCEPT !.sprint_id = "7", !.adf = TRUE]),
     [Existing([BaseCombo EXCEPT !.status = "Done"]) EXCEPT !.sub_jk = KV("dq", "")],
     Existing([BaseCombo EXCEPT !.sub_status = "Done", !.sprint_id = "next"]),
     Existing([BaseCombo EXCEPT !.status = "In Progress", !.sub_status = "Done"]),
     Existing([BaseCombo EXCEPT !.assignee = "dev@example.com"]),
     [Existing(BaseCombo) EXCEPT !.sub_pk = KV("dq", "WOR-999")],
     BaseCombo,
     [BaseCombo EXCEPT !.jk = KV("dq", " ")],
     [BaseCombo EXCEPT !.jk = KV("absent", "")],
     Existing([BaseSimple EXCEPT !.sprint_id = "7", !.status = "Done", !.parent_key = FeatureKey]),
     Existing([BaseSimple EXCEPT !.pm_owner = "dev@example.com", !.parent_key = ""]),
     [BaseSimple EXCEPT !.parent_key = ""],
     [BaseSimple EXCEPT !.jk = KV("dq", " "), !.sprint_id = "7"],
     [BaseSimple EXCEPT !.jk = KV("absent", "")]}

InitRun ==
    /\ tool = "none"
    /\ dry_run = FALSE
    /\ no_transition = FALSE
    /\ creds = FALSE
    /\ expanded_files = <<>>
    /\ idx = 1
    /\ success_count = 0
    /\ failed_count = 0
    /\ phase = "idle"
    /\ exit_code = -1
    /\ summary = FALSE
    /\ interrupted = FALSE
    /\ calls = <<>>
    /\ ret = "none"
    /\ warnings = <<>>
    /\ printed = <<>>
    /\ pre = NoFile
    /\ next_key = 1
    /\ runs = 0

\* no rich-text tree is being normalized
NoRichText == adf = Node(<<>>, <<>>, <<>>) /\ out = <<>>
\* no document text is being parsed on its own
NoText == text = <<>> /\ parsed = <<>>

\* batch specification: one run of any entry point over path lists naming
\* a record and a missing file
Init ==
    /\ fs \in [1..1 -> FilesOf(BatchDocs(BaseCombo) \cup BatchDocs(BaseSimple))]
    /\ created = [t \in 1..1 |-> 0]
    /\ InitRun
    /\ NoRichText
    /\ NoText

Next ==
    \/ StartRun(CreateTools \cup PushTools \cup PullTools, 1, TRUE)
    \/ CreateStoryFile
    \/ CreateEpicFile
    \/ PushStoryFile
    \/ PushFeatureFile
    \/ PullStoryFile
    \/ PullEpicFile
    \/ PullFeatureFile
    \/ FinishRun
    \/ Interrupt
    \/ ExitProcess

Spec == Init /\ [][Next]_vars

\* create specification: up to MaxRuns runs of the create entry points on
\* one record
InitCreate ==
    /\ fs \in [1..1 -> FilesOf(CreateDocs)]
    /\ created = [t \in 1..1 |-> 0]
    /\ InitRun
    /\ NoRichText
    /\ NoText

NextCreate ==
    \/ StartRun(CreateTools, MaxRuns, FALSE)
    \/ CreateStoryFile
    \/ CreateEpicFile
    \/ FinishRun
    \/ ExitProcess

SpecCreate == InitCreate /\ [][NextCreate]_vars

\* push specification: one run of a push entry point on one record
InitPush ==
    /\ fs \in [1..1 -> FilesOf(PushDocs)]
    /\ created = [t \in 1..1 |-> 0]
    /\ InitRun
    /\ NoRichText
    /\ NoText

NextPush ==
    \/ StartRun(PushTools, 1, FALSE)
    \/ PushStoryFile
    \/ PushFeatureFile
    \/ FinishRun
    \/ ExitProcess

SpecPush == InitPush /\ [][NextPush]_vars

\* documents of the draft specification: Story+Subtask drafts (neither
\* entity has an identifier) in the forms the parsers accept for the
\* identifier and parent-reference lines
DraftDocs ==
    {BaseCombo,
     [BaseCombo EXCEPT !.sub_adf = TRUE, !.sub_pk = KV("dq", FeatureKey)],
     [BaseCombo EXCEPT !.sub_pk = KV("sq", "")],
     [BaseCombo EXCEPT !.sub_pk = KV("absent", "")],
     [BaseCombo EXCEPT !.jk = KV("sq", "")],
     [BaseCombo EXCEPT !.sub_jk = KV("bare", "")],
     [BaseCombo EXCEPT !.jk_first = FALSE],
     [BaseCombo EXCEPT !.sub_jk_first = FALSE]}

\* draft specification: runs of the Story+Subtask create and pull entry
\* points, in any order, on one record that starts as a draft
InitDraft ==
    /\ fs \in [1..1 -> FilesOf(DraftDocs)]
    /\ created = [t \in 1..1 |-> 0]
    /\ InitRun
    /\ NoRichText
    /\ NoText

NextDraft ==
    \/ StartRun({"create_story", "pull_from_jira"}, MaxRuns, FALSE)
    \/ CreateStoryFile
    \/ PullStoryFile
    \/ FinishRun
    \/ ExitProcess

SpecDraft == InitDraft /\ [][NextDraft]_vars

\* documents of the pull specification: existing records with local
\* values of their own, with the identifier lines in the places and forms
\* the parser accepts, without a Subtask; Epic / Feature records
PullDocs ==
    {Existing([BaseCombo EXCEPT !.status = "In Progress", !.assignee = "old@example.com",
                                !.sprint_id = "3", !.pm_owner = "old@example.com"]),
     [Existing(BaseCombo) EXCEPT !.sub_jk_first = FALSE],
     [Existing(BaseCombo) EXCEPT !.jk_first = FALSE],
     [Existing(BaseCombo) EXCEPT !.sub_jk = KV("sq", "WOR-102")],
     [Existing(BaseCombo) EXCEPT !.jk = KV("bare", "WOR-101")],
     [Existing(BaseCombo) EXCEPT !.sub_jk = KV("dq", ""), !.sub_pk = KV("dq", "")],
     BaseCombo,
     Existing([BaseSimple EXCEPT !.status = "In Progress", !.assignee = "old@example.com",
                                 !.sprint_id = "3", !.pm_owner = "old@example.com"]),
     Existing([BaseSimple EXCEPT !.parent_key = ""]),
     [Existing(BaseSimple) EXCEPT !.jk = KV("sq", "WOR-201")],
     BaseSimple}

\* pull specification: one run of a pull entry point on one record
InitPull ==
    /\ fs \in [1..1 -> FilesOf(PullDocs)]
    /\ created = [t \in 1..1 |-> 0]
    /\ InitRun
    /\ NoRichText
    /\ NoText

NextPull ==
    \/ StartRun(PullTools, 1, FALSE)
    \/ PullStoryFile
    \/ PullEpicFile
    \/ PullFeatureFile
    \/ FinishRun
    \/ ExitProcess

SpecPull == InitPull /\ [][NextPull]_vars

\* the mark lists of a node and the rich-text trees of up to MaxNodes nodes
MarkLists ==
    {<<>>, <<Mark("code")>>, <<Mark("strong"), Mark("em")>>, <<Mark("code"), Mark("strong")>>,
     <<Mark("strong"), Mark("em"), Mark("code")>>}
RECURSIVE TreesOfSize(_), Forests(_)
Forests(k) ==
    IF k = 0 THEN {<<>>}
    ELSE UNION { {<<t>> \o r : t \in TreesOfSize(j), r \in Forests(k - j)} : j \in 1..k }
TreesOfSize(n) ==
    UNION { {Node(mk, c, e) : mk \in MarkLists, c \in Forests(i), e \in Forests(n - 1 - i)}
            : i \in 0..(n - 1) }
AdfTrees(size) == UNION {TreesOfSize(n) : n \in 1..size}

\* the normalizer applied to a tree, and again to what it returned
Normalize ==
    /\ Len(out) < 2
    /\ out' = IF out = <<>> THEN <<normalize_adf_marks(adf)>>
              ELSE Append(out, normalize_adf_marks(out[1]))
    /\ UNCHANGED <<adf, text, parsed, fs, tool, dry_run, no_transition, creds, expanded_files, idx, success_count,
                   failed_count, phase, exit_code, summary, interrupted, calls, ret, warnings, printed,
                   pre, next_key, created, runs>>

\* normalizer specification: the mark normalizer on every tree of the bound
InitMarks ==
    /\ adf \in AdfTrees(MaxNodes)
    /\ out = <<>>
    /\ NoText
    /\ fs = [t \in 1..1 |-> File(NameOf(BaseCombo), BaseCombo)]
    /\ created = [t \in 1..1 |-> 0]
    /\ InitRun

NextMarks == Normalize

SpecMarks == InitMarks /\ [][NextMarks]_vars

\* ------------------------------------------------------------ properties
\* the path of the document processed last (ret # "none")
Handled == IF ret = "raise" THEN expanded_files[idx] ELSE expanded_files[idx - 1]
\* a document was opened and processed by one of the entry points tools
Processed(tools) == tool \in tools /\ ret # "none" /\ pre.name # NoFile.name
\* the primary identifier a file carries / its Subtask identifier
PrimaryId(file) == Strip(Scalar(file.doc.jk))
SubtaskId(file) == Strip(Scalar(file.doc.sub_jk))
\* the document is one the create entry point parses
Parses(file) ==
    IF tool = "create_story" THEN create_story_parse_combo_record_ok(file.doc)
    ELSE create_epic_parse_epic_record_ok(file.doc)

IsCreate(c, issuetypes) == c.op = "create" /\ c.fields.issuetype \in issuetypes
\* positions in calls of a primary create call that returned an identifier
PrimaryCreates == {i \in DOMAIN calls : IsCreate(calls[i], {"10007", "10186"}) /\ calls[i].ok /\ calls[i].key # ""}
SubtaskCreates == {i \in DOMAIN calls : IsCreate(calls[i], {"10184"})}

\* C1 as stated: on the create path, a document carrying a non-empty
\* primary identifier is processed with zero remote calls and reported as a
\* success
C1_AsStated ==
    (Processed(CreateTools) /\ PrimaryId(pre) # "") => (calls = <<>> /\ ret = "True")

\* C1 amended: on the create path, a document that parses and carries a
\* non-empty primary identifier is processed with zero remote calls and
\* reported as a success; one that does not parse is reported as failed,
\* also with zero remote calls
C1_SkipsExisting ==
    (Processed(CreateTools) /\ PrimaryId(pre) # "")
        => /\ calls = <<>>
           /\ ret = (IF Parses(pre) THEN "True" ELSE "False")

C1_Witness ==
    /\ Processed(CreateTools) /\ PrimaryId(pre) # "" /\ Parses(pre)
    /\ creds /\ ~dry_run /\ ret = "True" /\ calls = <<>>

\* C2: for every entry point, a failure on one document never aborts the
\* batch: when the process ends without an interrupt every document of the
\* expanded file list was processed once and the summary was reported
C2_BatchCompletes ==
    (phase = "done" /\ ~interrupted /\ expanded_files # <<>>)
        => /\ summary
           /\ idx = Len(expanded_files) + 1
           /\ success_count + failed_count = Len(expanded_files)

\* C3: for every entry point, the exit code is 130 when the run was
\* interrupted during the batch, else 0 if every document succeeded and 1
\* if any did not
C3_ExitCode ==
    (phase = "done" /\ expanded_files # <<>>)
        => exit_code = (IF interrupted THEN 130
                        ELSE IF success_count = Len(expanded_files) THEN 0 ELSE 1)

\* C4: with --dry-run no entry point issues a remote write (create, update,
\* transition), whatever the document, the credentials and the responses
C4_DryRunNoWrites ==
    dry_run => \A i \in DOMAIN calls : calls[i].op \notin WriteOps

\* a dry run of the push that read the transitions of an issue whose status
\* differs from the desired one
C4_Witness ==
    /\ dry_run /\ creds /\ tool \in PushTools /\ ret = "True"
    /\ \E i \in DOMAIN calls : calls[i].op = "get_transitions" /\ calls[i].ok

\* C5: after a create run whose primary create call returned an identifier,
\* re-parsing the local document yields that identifier, and over any
\* sequence of create runs at most one primary entity is created per record
C5_WrittenBackOnce ==
    /\ (Processed(CreateTools) /\ PrimaryCreates # {})
          => PrimaryId(fs[Handled.t]) = calls[Min(PrimaryCreates)].key
    /\ \A t \in DOMAIN created : created[t] <= 1

\* C6: in the Story+Subtask create path a Subtask create call comes only
\* after a Story create call of the same document that returned a non-empty
\* identifier, with that identifier as its parent; after a failed Story
\* create call there is no Subtask create call
C6_SubtaskAfterStory ==
    tool = "create_story"
        => /\ \A i \in SubtaskCreates :
                \E j \in PrimaryCreates : j < i /\ calls[i].fields.parent = calls[j].key
           /\ (\E j \in DOMAIN calls : IsCreate(calls[j], {"10007"}) /\ (~calls[j].ok \/ calls[j].key = ""))
                => SubtaskCreates = {}

C6_Witness ==
    /\ tool = "create_story" /\ ret = "True"
    /\ \E i \in SubtaskCreates : calls[i].ok /\ calls[i].key # ""

\* C7: on the create path, once the primary create call returned an
\* identifier the document is reported as a success and the local document
\* carries that identifier, whatever fails afterwards (stated for documents
\* whose jira_key line is in the double-quoted form; the other forms are
\* the case of C5)
C7_LaterFailureIsWarning ==
    (Processed(CreateTools) /\ PrimaryCreates # {} /\ pre.doc.jk.form = "dq")
        => /\ ret = "True"
           /\ PrimaryId(fs[Handled.t]) = calls[Min(PrimaryCreates)].key

\* C8: on the push path a document whose primary identifier is empty is
\* reported as failed and no remote call is issued for it
C8_EmptyIdRejected ==
    (Processed(PushTools) /\ PrimaryId(pre) = "") => (ret = "False" /\ calls = <<>>)

\* an update of the primary entity rejected for a closed sprint while the
\* field set held the sprint field
SprintRejected(i) ==
    /\ calls[i].op = "update" /\ calls[i].key = PrimaryId(pre) /\ ~calls[i].ok
    /\ SPRINT_CLOSED_MSG \in calls[i].msg
    /\ CF_SPRINT \in DOMAIN calls[i].fields

\* call i is followed by exactly one more update of the same issue, with
\* the field set of call i less field
OneRetryWithout(i, field) ==
    /\ i + 1 \in DOMAIN calls
    /\ calls[i + 1].op = "update"
    /\ calls[i + 1].key = calls[i].key
    /\ DOMAIN calls[i + 1].fields = DOMAIN calls[i].fields \ {field}
    /\ \A x \in DOMAIN calls[i + 1].fields : calls[i + 1].fields[x] = calls[i].fields[x]
    /\ \A j \in DOMAIN calls : j > i + 1 => ~(calls[j].op = "update" /\ calls[j].key = calls[i].key)

\* the document failed at its Subtask update, the last call made
FailedAtSubtask ==
    /\ tool = "sync_to_jira" /\ ret = "False"
    /\ calls[Len(calls)].op = "update" /\ calls[Len(calls)].key = SubtaskId(pre)
    /\ ~calls[Len(calls)].ok

\* C9 as stated: a Story or Feature update rejected for a closed sprint is
\* retried exactly once without the sprint field; if the retry succeeds
\* the document is a success, if it fails the document fails with no
\* further call
C9_AsStated ==
    Processed(PushTools) =>
        \A i \in DOMAIN calls : SprintRejected(i) =>
            /\ OneRetryWithout(i, CF_SPRINT)
            /\ calls[i + 1].ok => ret = "True"
            /\ ~calls[i + 1].ok => (ret = "False" /\ Len(calls) = i + 1)

\* C9 amended: as C9, except that after a successful retry processing goes
\* on as after a first-time success: a Feature document is a success, a
\* Story document is a success unless its Subtask update then fails
C9_SprintRetry ==
    Processed(PushTools) =>
        \A i \in DOMAIN calls : SprintRejected(i) =>
            /\ OneRetryWithout(i, CF_SPRINT)
            /\ calls[i + 1].ok => (ret = "True" \/ (Len(calls) > i + 1 /\ FailedAtSubtask))
            /\ ~calls[i + 1].ok => (ret = "False" /\ Len(calls) = i + 1)

C9_Witness ==
    /\ Processed(PushTools) /\ ret = "True"
    /\ \E i \in DOMAIN calls : SprintRejected(i) /\ calls[i + 1].ok

\* C10: a Subtask update with a parent-related rejection is retried exactly
\* once without the parent field; any other rejection, or a rejection of
\* the retry, fails the document with no further call
C10_ParentRetry ==
    Processed({"sync_to_jira"}) =>
        \A i \in DOMAIN calls :
            (/\ calls[i].op = "update" /\ calls[i].key = SubtaskId(pre) /\ ~calls[i].ok
             /\ "parent" \in DOMAIN calls[i].fields)
            => IF "parent" \in calls[i].msg
               THEN /\ OneRetryWithout(i, "parent")
                    /\ ~calls[i + 1].ok => (ret = "False" /\ Len(calls) = i + 1)
               ELSE ret = "False" /\ Len(calls) = i

C10_Witness ==
    /\ Processed({"sync_to_jira"}) /\ ret = "True"
    /\ \E i \in DOMAIN calls :
         /\ calls[i].op = "update" /\ calls[i].key = SubtaskId(pre) /\ ~calls[i].ok
         /\ "parent" \in calls[i].msg
         /\ calls[i + 1].op = "update" /\ calls[i + 1].ok

\* the last update call made for issue key went through
UpdateSucceeded(key) ==
    LET ups == {i \in DOMAIN calls : calls[i].op = "update" /\ calls[i].key = key}
    IN ups # {} /\ calls[CHOOSE i \in ups : \A j \in ups : j <= i].ok
\* positions in calls of the calls of the status-transition step for issue key
TransitionCalls(key) ==
    {i \in DOMAIN calls : calls[i].op \in {"get_issue", "get_transitions", "transition"} /\ calls[i].key = key}

\* C11: on the push path a document whose field updates succeeded is
\* reported as a success whatever happens in the status-transition step
\* (each failure of the resolver ends as a warning), and the Subtask
\* transition is attempted whatever became of the Story's
C11_TransitionFailureIsWarning ==
    Processed(PushTools) =>
        /\ (~dry_run /\ UpdateSucceeded(PrimaryId(pre))
              /\ (tool = "sync_to_jira" /\ SubtaskId(pre) # "" => UpdateSucceeded(SubtaskId(pre))))
             => ret = "True"
        /\ (warnings # <<>> \/ TransitionCalls(PrimaryId(pre)) # {}) => ret = "True"
        /\ (tool = "sync_to_jira" /\ ret = "True" /\ creds /\ ~no_transition
              /\ SubtaskId(pre) # "" /\ Strip(pre.doc.sub_status) # "")
             => TransitionCalls(SubtaskId(pre)) # {}

\* a push whose field updates went through, whose Story transition failed
\* (for each of the three reasons in turn the warning is there) and whose
\* Subtask transition was attempted all the same
C11_Witness ==
    /\ Processed({"sync_to_jira"}) /\ ret = "True" /\ ~dry_run
    /\ UpdateSucceeded(PrimaryId(pre)) /\ UpdateSucceeded(SubtaskId(pre))
    /\ \E i \in DOMAIN warnings :
         /\ warnings[i].key = PrimaryId(pre)
         /\ warnings[i].message = "No available transition"
    /\ TransitionCalls(SubtaskId(pre)) # {}

\* the issues the status-transition step of the last push dealt with, and
\* the status the document asks for each
ResolverKeys == {calls[i].key : i \in UNION {TransitionCalls(k) : k \in {PrimaryId(pre), SubtaskId(pre)}}}
Desired(key) == IF key = PrimaryId(pre) THEN Strip(pre.doc.status) ELSE Strip(pre.doc.sub_status)
\* the status read for key answered with the desired status
ReadDesired(key) ==
    \E i \in TransitionCalls(key) :
        calls[i].op = "get_issue" /\ calls[i].ok /\ Strip(calls[i].status) = Desired(key)
\* the transitions listed for key, when the listing was answered
Listed(key) == {i \in TransitionCalls(key) : calls[i].op = "get_transitions" /\ calls[i].ok}
Applied(key) == {i \in TransitionCalls(key) : calls[i].op = "transition"}

\* C12 as stated: when the desired status is the issue's current status
\* the resolver makes no remote call at all
C12_AsStated ==
    Processed(PushTools) =>
        \A k \in ResolverKeys : ReadDesired(k) => TransitionCalls(k) = {}

\* C12: when the desired status is the issue's current status the resolver
\* makes the one call that reads the status and no other: it lists no
\* transitions and applies none
C12_OnlyStatusRead ==
    Processed(PushTools) =>
        \A k \in ResolverKeys :
            ReadDesired(k) =>
                /\ Cardinality(TransitionCalls(k)) = 1
                /\ \A w \in DOMAIN warnings : warnings[w].key # k

\* a push without --dry-run whose Story was found in the desired status
C12_Witness ==
    /\ Processed({"sync_to_jira"}) /\ ~dry_run /\ ret = "True"
    /\ Desired(PrimaryId(pre)) = "Done"
    /\ ReadDesired(PrimaryId(pre))

\* C13: when the desired status differs from the current one, the
\* transition applied is one that leads to the desired status whenever the
\* listing has one, else one named like the desired status; when the
\* listing has neither, nothing is applied and the resolver fails with an
\* error that lists the destination names on offer; no call of the resolver
\* applies more than one transition
C13_TransitionSelection ==
    Processed(PushTools) =>
        \A k \in ResolverKeys :
            /\ Cardinality(Applied(k)) <= 1
            /\ Applied(k) # {} => Listed(k) # {}
            /\ \A l \in Listed(k) :
                 LET ts == calls[l].transitions
                     byTo == {t \in 1..Len(ts) : ts[t].to = Desired(k)}
                     byName == {t \in 1..Len(ts) : ts[t].name = Desired(k)}
                 IN /\ ~ReadDesired(k)
                    /\ \A a \in Applied(k) :
                         /\ a = l + 1
                         /\ IF byTo # {} THEN \E t \in byTo : calls[a].fields.id = ts[t].id
                            ELSE \E t \in byName : calls[a].fields.id = ts[t].id
                    /\ (byTo \cup byName # {} /\ ~dry_run) => Applied(k) # {}
                    /\ byTo \cup byName = {} =>
                         /\ Applied(k) = {}
                         /\ \E w \in DOMAIN warnings :
                              /\ warnings[w].key = k
                              /\ warnings[w].message = "No available transition"
                              /\ warnings[w].available = [t \in 1..Len(ts) |-> ts[t].to]

\* a transition applied for its destination although an earlier transition
\* of the listing is named like the desired status
C13_Witness ==
    /\ Processed(PushTools) /\ ~dry_run
    /\ \E k \in ResolverKeys : \E l \in Listed(k), a \in Applied(k) :
         LET ts == calls[l].transitions
         IN \E t, u \in 1..Len(ts) :
              /\ u < t /\ ts[u].name = Desired(k) /\ ts[u].to # Desired(k)
              /\ ts[t].to = Desired(k) /\ calls[a].fields.id = ts[t].id

\* the document is one its entry point takes up: it parses (create, push),
\* its identifier is found (pull)
Accepted(file) ==
    CASE tool \in CreateTools -> Parses(file)
      [] tool = "sync_to_jira" -> sync_to_jira_parse_combo_record_ok(file.doc)
      [] tool = "sync_feature_to_jira" -> parse_feature_record_ok(file.doc)
      [] tool = "pull_from_jira" ->
            NestedKeyMatch(file.doc, file.doc.jk, file.doc.jk_first) \/ TopLevelKeyMatch(file.doc)
      [] OTHER -> TopLevelKeyMatch(file.doc)
\* the entry point has something to ask of the remote service for the
\* document: creation finds no identifier, push and pull always
NeedsRemote(file) == tool \in CreateTools => PrimaryId(file) = ""

\* C14: in every entry point, with a credential value missing, a document
\* processed with --dry-run is handled and not failed for the missing
\* credentials, and one processed without --dry-run is reported as failed;
\* no remote call is issued either way
C14_MissingCredentials ==
    (Processed(CreateTools \cup PushTools \cup PullTools) /\ ~creds /\ Accepted(pre) /\ NeedsRemote(pre)) =>
        /\ calls = <<>>
        /\ dry_run => ret # "False"
        /\ ~dry_run => ret = "False"

\* the Subtask has an identifier and its parent reference is not the
\* Story's identifier
ParentMismatch(file) ==
    /\ file.doc.kind = "combo"
    /\ SubtaskId(file) # ""
    /\ Strip(Scalar(file.doc.sub_pk)) # PrimaryId(file)

\* C15: a two-entity document whose Subtask id is set and whose Subtask
\* parent reference differs from the Story id fails to parse, in the create
\* and in the push entry point: it is reported as failed and nothing is
\* asked of the remote service
C15_ParentMismatchRejected ==
    (Processed({"create_story", "sync_to_jira"}) /\ ParentMismatch(pre)) =>
        ret = "False" /\ calls = <<>>

\* C16: from a draft Story+Subtask document, after any sequence of create
\* and pull runs, a local document that has both a Story id and a Subtask
\* id has the Story id as the Subtask's parent reference
C16_ParentReferenceKept ==
    \A t \in DOMAIN fs :
        (fs[t].doc.kind = "combo" /\ PrimaryId(fs[t]) # "" /\ SubtaskId(fs[t]) # "")
            => Strip(Scalar(fs[t].doc.sub_pk)) = PrimaryId(fs[t])

\* the file the last processed document is now
Now == fs[Handled.t]
\* the last processed document was rewritten by a pull
Pulled(tools) == Processed(tools) /\ ret = "True" /\ ~dry_run

\* C17: for every valid two-entity document, the Story id and the Subtask
\* id parsed after the pull path rewrote the front matter are the ids
\* parsed before, wherever the identifier lines stand in their sections
C17_IdentifierRoundTrip ==
    (Pulled({"pull_from_jira"}) /\ sync_to_jira_parse_combo_record_ok(pre.doc)) =>
        /\ ComboRecord(Now.doc).story.jira_key = ComboRecord(pre.doc).story.jira_key
        /\ ComboRecord(Now.doc).subtask.jira_key = ComboRecord(pre.doc).subtask.jira_key

\* the local value of a remote user: the email, or the account id when
\* the user has no email; of a remote sprint field; of a remote estimate
EmailOrAccount(u) ==
    IF u = NoUser THEN "" ELSE IF u.emailAddress # "" THEN u.emailAddress ELSE u.accountId
SprintId(f) == IF f.type = "null" \/ f.ids = <<>> THEN "" ELSE f.ids[1]
Estimate(pt) == IF pt.null THEN "" ELSE ToString(pt.n)

\* C18: after a successful pull without --dry-run each front-matter field
\* the pull covers holds the value of the remote issue, whatever it held
\* before: the status name, the assignee's email or else account id, the
\* team id, the sprint id (of the first element of a list, else of the
\* dict), the estimate as a string, the owner's email or else account id,
\* the labels
C18_PulledValues ==
    Pulled(PullTools) =>
        LET story == calls[1].issue
        IN /\ Now.doc.status = story.status
           /\ Now.doc.assignee = EmailOrAccount(story.assignee)
           /\ Now.doc.team_id = story.team
           /\ Now.doc.sprint_id = SprintId(story.sprint)
           /\ Now.doc.story_points = Estimate(story.points)
           /\ Now.doc.pm_owner = EmailOrAccount(story.pm_owner)
           /\ Now.doc.labels = story.labels
           /\ Len(calls) = 2 =>
                /\ Now.doc.sub_status = calls[2].issue.status
                /\ Now.doc.sub_assignee = EmailOrAccount(calls[2].issue.assignee)

\* all nodes of a tree, at any depth and in either list-valued field
RECURSIVE NodesOf(_)
NodesOf(t) ==
    {t} \cup UNION {NodesOf(t.content[i]) : i \in DOMAIN t.content}
        \cup UNION {NodesOf(t.rows[i]) : i \in DOMAIN t.rows}
\* node for node, the output has code and no strong where the input had
\* both marks
RECURSIVE CodeKept(_, _)
CodeKept(in, o) ==
    /\ (has_code(in.marks) /\ has_strong(in.marks)) => (has_code(o.marks) /\ ~has_strong(o.marks))
    /\ DOMAIN o.content = DOMAIN in.content
    /\ DOMAIN o.rows = DOMAIN in.rows
    /\ \A i \in DOMAIN in.content : CodeKept(in.content[i], o.content[i])
    /\ \A i \in DOMAIN in.rows : CodeKept(in.rows[i], o.rows[i])

\* C19: no node of a normalized tree, at any depth and inside any
\* list-valued field, carries both the code and the strong mark; where
\* the node of the input carried both, the node of the output carries code
\* and not strong
C19_NoCodeWithStrong ==
    out # <<>> =>
        /\ \A n \in NodesOf(out[1]) : ~(has_code(n.marks) /\ has_strong(n.marks))
        /\ CodeKept(adf, out[1])

\* a normalized tree one of whose nodes, below the root in a list-valued
\* field other than content, carried both marks in the input
C19_Witness ==
    /\ out # <<>>
    /\ \E i \in DOMAIN adf.rows : \E j \in DOMAIN adf.rows[i].rows :
         /\ has_code(adf.rows[i].rows[j].marks) /\ has_strong(adf.rows[i].rows[j].marks)
         /\ out[1].rows[i].rows[j].marks # adf.rows[i].rows[j].marks

\* C20: normalizing a normalized tree returns it unchanged
C20_Idempotent == Len(out) = 2 => out[2] = out[1]

\* a tree that the first pass changed and that was normalized twice
C20_Witness ==
    /\ Len(out) = 2
    /\ out[1] # adf
    /\ \E n \in NodesOf(adf) : Len(n.marks) = 3

\* node for node, the output has a strong mark only where the input had
\* one, and has the code marks of the input
RECURSIVE MarksSafe(_, _)
MarksSafe(in, o) ==
    /\ has_strong(o.marks) => has_strong(in.marks)
    /\ SelectSeq(o.marks, IsCode) = SelectSeq(in.marks, IsCode)
    /\ DOMAIN o.content = DOMAIN in.content
    /\ DOMAIN o.rows = DOMAIN in.rows
    /\ \A i \in DOMAIN in.content : MarksSafe(in.content[i], o.content[i])
    /\ \A i \in DOMAIN in.rows : MarksSafe(in.rows[i], o.rows[i])

\* C21: the normalizer puts a strong mark on no node that had none, and
\* takes the code mark from no node that had one, whatever other marks the
\* node carries
C21_NoBoldAddedNoCodeRemoved == out # <<>> => MarksSafe(adf, out[1])

\* a normalized tree with a node that carried code beside strong and em,
\* and a node that carried code without strong
C21_Witness ==
    /\ out # <<>>
    /\ \E n \in NodesOf(adf) : has_code(n.marks) /\ has_strong(n.marks) /\ Len(n.marks) = 3
    /\ \E n \in NodesOf(adf) : has_code(n.marks) /\ ~has_strong(n.marks)

\* the tree with the strong marks taken from the nodes that have both
\* code and strong, and nothing else changed
RECURSIVE WithoutStrong(_)
WithoutStrong(t) ==
    Node(IF has_code(t.marks) /\ has_strong(t.marks)
         THEN SelectSeq(t.marks, LAMBDA m : m.type # "strong") ELSE t.marks,
         [i \in DOMAIN t.content |-> WithoutStrong(t.content[i])],
         [i \in DOMAIN t.rows |-> WithoutStrong(t.rows[i])])

\* C22: the normalized tree is the input tree but for the strong marks of
\* the nodes that carry both code and strong: every other mark of every
\* node and all other content is as in the input
C22_EquivalentTree == out # <<>> => out[1] = WithoutStrong(adf)

\* ------------------------------------------------------------ owner mapping
\* the owner and assignee entries the last processed document asks for
OwnerInputs == {<<CF_PM_OWNER, Strip(pre.doc.pm_owner)>>, <<"assignee", Strip(pre.doc.assignee)>>}
\* a create or update call sent to the remote
Sent(c) == c.op \in {"create", "update"}

\* C23: in every field-set builder of the create and push entry points, an
\* owner or assignee value that is non-empty and resolves to no account is
\* left out of a field set sent with network resolution permitted, and is
\* present as the placeholder "<unresolved:input>" in the field set built
\* for a dry run.
C23_UnresolvedOwnerMapping ==
    Processed(CreateTools \cup PushTools) =>
        \A e \in OwnerInputs :
            (e[2] # "" /\ e[2] \notin AccountIdLike) =>
                /\ printed # <<>> =>
                       /\ e[1] \in DOMAIN printed[1]
                       /\ printed[1][e[1]] = Unresolved(e[2])
                /\ \A i \in DOMAIN calls :
                       (Sent(calls[i]) /\ e[1] \in DOMAIN calls[i].fields)
                           => calls[i].fields[e[1]] # Unresolved(e[2])

\* ------------------------------------------------------------ titles
\* the Jira summary limit the create scripts cut titles at
SUMMARY_LIMIT == 255

\* A title: its length, whether it ends in the "..." the builders append,
\* and for a synthesized "<Kind> for <key>" title the key it names
Title(len, ellipsis, for) == [len |-> len, ellipsis |-> ellipsis, for |-> for]
NoTitle == Title(0, FALSE, "")
\* s[:n]
Slice(t, n) == IF t.len <= n THEN t ELSE Title(n, FALSE, t.for)
\* f"Story for {key}" / f"Subtask for {key}" with a key of seven characters
DefaultTitle(kind, key) == Title(IF kind = "Story" THEN 17 ELSE 19, FALSE, key)

\* the text of a draft as the title extractors see it: the length of the
\* first usable line under "## Acceptance Criteria" of each section (0: no
\* such line), of the file name without prefix and extension, and of the
\* "## Summary" section of an Epic
Draft(kind, story_line, subtask_line, basename, summary_section) ==
    [kind |-> kind, story_line |-> story_line, subtask_line |-> subtask_line,
     basename |-> basename, summary_section |-> summary_section, parent_key |-> "WOR-900"]

\* _extract_summary_from_section: the first usable line, cut at 255
extract_summary_from_section(line) ==
    IF line = 0 THEN NoTitle ELSE Slice(Title(line, FALSE, ""), SUMMARY_LIMIT)
extract_summary_from_filename(basename) == Title(basename, FALSE, "")

\* if len(summary) > 255: summary = summary[:252] + "..."
truncate_summary(t) ==
    IF t.len > SUMMARY_LIMIT THEN Title((SUMMARY_LIMIT - 3) + 3, TRUE, t.for) ELSE t

TitleOf(issuetype, title, raised) == [issuetype |-> issuetype, summary |-> title, raised |-> raised]

\* create_story_in_jira: _parse_combo_record, the file-name fallback of
\* _process_single_file, then the summary of _build_story_create_fields and
\* of _build_subtask_create_fields
create_story_titles(d, story_key) ==
    LET story_summary == extract_summary_from_section(d.story_line)
        subtask_summary == extract_summary_from_section(d.subtask_line)
        fallback == story_summary.len = 0
        story1 == IF fallback THEN extract_summary_from_filename(d.basename) ELSE story_summary
        subtask1 == IF fallback /\ subtask_summary.len = 0
                    THEN DefaultTitle("Subtask", d.parent_key) ELSE subtask_summary
        story2 == IF story1.len = 0 THEN DefaultTitle("Story", d.parent_key) ELSE story1
        subtask2 == IF subtask1.len = 0 THEN DefaultTitle("Subtask", story_key) ELSE subtask1
    IN <<TitleOf("10007", truncate_summary(story2), FALSE),
         TitleOf("10184", truncate_summary(subtask2), FALSE)>>

\* create_epic_in_jira: _parse_epic_record takes the whole "## Summary"
\* section and raises without one; _build_epic_create_fields copies it
create_epic_titles(d) ==
    IF d.summary_section = 0 THEN <<TitleOf("10186", NoTitle, TRUE)>>
    ELSE <<TitleOf("10186", Title(d.summary_section, FALSE, ""), FALSE)>>

\* title lengths of the drafts: none, short, at the limit, just over, far over
TitleLens == {0, 40, SUMMARY_LIMIT, SUMMARY_LIMIT + 1, 300}
TitleDrafts ==
    {Draft("combo", a, b, c, 0) : a \in TitleLens, b \in TitleLens, c \in TitleLens}
    \cup {Draft("epic", 0, 0, 0, a) : a \in TitleLens}

TextFrame == UNCHANGED <<text, adf, out, fs, tool, dry_run, no_transition, creds, expanded_files, idx,
                         success_count, failed_count, phase, exit_code, summary, interrupted, calls,
                         ret, warnings, printed, pre, next_key, created, runs>>

BuildStoryFields ==
    /\ parsed = <<>>
    /\ text.kind = "combo"
    /\ parsed' = create_story_titles(text, "WOR-101")
    /\ TextFrame

BuildEpicFields ==
    /\ parsed = <<>>
    /\ text.kind = "epic"
    /\ parsed' = create_epic_titles(text)
    /\ TextFrame

\* title specification: the create field sets built for every draft of
\* TitleDrafts
InitTitle ==
    /\ text \in TitleDrafts
    /\ parsed = <<>>
    /\ NoRichText
    /\ fs = [t \in 1..1 |-> File(NameOf(BaseCombo), BaseCombo)]
    /\ created = [t \in 1..1 |-> 0]
    /\ InitRun

NextTitle ==
    \/ BuildStoryFields
    \/ BuildEpicFields

SpecTitle == InitTitle /\ [][NextTitle]_vars

\* the length of the title the extractors found for the i-th field set
ExtractedLen(i) ==
    IF text.kind = "epic" THEN text.summary_section
    ELSE IF i = 2 THEN text.subtask_line
    ELSE IF text.story_line > 0 THEN text.story_line
    ELSE text.basename

\* C24: in every creation field set (Story, Subtask, Epic) the title is
\* present and non-empty, is at most 255 characters long, ends in the
\* ellipsis marker when the extracted title was longer than 255 characters,
\* and is the synthesized "<Kind> for <parent-key>" default when no title
\* could be extracted.
C24_TitleBounded ==
    \A i \in DOMAIN parsed :
        ~parsed[i].raised =>
            LET t == parsed[i].summary
            IN /\ t.len >= 1
               /\ t.len <= SUMMARY_LIMIT
               /\ ExtractedLen(i) > SUMMARY_LIMIT => t.ellipsis
               /\ ExtractedLen(i) = 0 => t.for # ""

\* ------------------------------------------------------------ rich-text blocks
\* parts a document body is put together from
MaxParts == 4
\* a second rich-text field of the documents
CF_TECH_NOTES == "customfield_10356"

\* A line of a document body as _extract_adf_blocks tells lines apart.
\* t: "heading" (v: "story" for "# User Story", "subtask" for "# Subtask"),
\* "marker" ("ADF Version (<v>)"), "open" (a ```json fence), "close" (a ```
\* fence), "json" (a line holding a JSON document), "bad" (a line json.loads
\* rejects)
Line(t, v) == [t |-> t, v |-> v]
Heading(e) == Line("heading", e)
Marker(f) == Line("marker", f)
Fence(t) == Line(t, "")

\* smallest index from..Len(lines) of a line of kind t, 0 when there is none
FirstFrom(lines, from, t) ==
    LET S == {x \in from..Len(lines) : lines[x].t = t}
    IN IF S = {} THEN 0 ELSE Min(S)

\* json.loads("\n".join(lines[j+1:k]).strip()): the text parses when it is
\* one JSON document; the parsed value is named by the line it stands on
FencedJson(lines, j, k) ==
    LET inside == (j + 1)..(k - 1)
    IN IF inside = {} THEN [empty |-> TRUE, ok |-> TRUE, value |-> 0]
       ELSE IF Cardinality(inside) = 1 /\ lines[j + 1].t = "json"
            THEN [empty |-> FALSE, ok |-> TRUE, value |-> j + 1]
            ELSE [empty |-> FALSE, ok |-> FALSE, value |-> 0]

Blocks(raised, fields) == [raised |-> raised, fields |-> fields]
NoBlocks == [e \in {"story", "subtask", "feature"} |-> EmptyFields]

\* the while loop of _extract_adf_blocks from line i on; sections: the
\* two-entity extractor, which follows the "# User Story" / "# Subtask"
\* headings and needs one before it looks at a marker
RECURSIVE scan_adf_blocks(_, _, _, _, _)
scan_adf_blocks(lines, i, current, fields, sections) ==
    IF i > Len(lines) THEN Blocks(FALSE, fields)
    ELSE LET line == lines[i]
             cur == IF sections /\ line.t = "heading" THEN line.v ELSE current
             j == FirstFrom(lines, i + 1, "open")
             k == FirstFrom(lines, j + 1, "close")
             raw == FencedJson(lines, j, k)
         IN IF ~(cur # None /\ line.t = "marker") THEN scan_adf_blocks(lines, i + 1, cur, fields, sections)
            ELSE IF j = 0 \/ k = 0 THEN scan_adf_blocks(lines, i + 1, cur, fields, sections)
            ELSE IF raw.empty THEN scan_adf_blocks(lines, k + 1, cur, fields, sections)
            ELSE IF ~raw.ok THEN Blocks(TRUE, fields)
            ELSE scan_adf_blocks(lines, k + 1, cur,
                                 [fields EXCEPT ![cur] = Put(fields[cur], line.v, raw.value)], sections)

\* sync_to_jira / create_story_in_jira: (story_fields, subtask_fields)
extract_adf_blocks(lines) == scan_adf_blocks(lines, 1, None, NoBlocks, TRUE)
\* sync_feature_to_jira: one field set, no sections
extract_adf_blocks_feature(lines) == scan_adf_blocks(lines, 1, "feature", NoBlocks, FALSE)

\* the parts: section headings, markers of two fields, a fenced block with a
\* JSON document, with malformed JSON, with nothing, and stray fences
BodyParts ==
    {<<Heading("story")>>, <<Heading("subtask")>>,
     <<Marker(CF_ACCEPTANCE)>>, <<Marker(CF_TECH_NOTES)>>,
     <<Fence("open"), Fence("json"), Fence("close")>>,
     <<Fence("open"), Fence("bad"), Fence("close")>>,
     <<Fence("open"), Fence("close")>>,
     <<Fence("open")>>, <<Fence("close")>>}

RECURSIVE BodiesOf(_)
BodiesOf(n) ==
    IF n = 0 THEN {<<>>}
    ELSE LET S == BodiesOf(n - 1) IN S \cup {s \o p : s \in S, p \in BodyParts}

ExtractStoryBlocks ==
    /\ parsed = <<>>
    /\ parsed' = <<extract_adf_blocks(text)>>
    /\ TextFrame

ExtractFeatureBlocks ==
    /\ parsed = <<>>
    /\ parsed' = <<extract_adf_blocks_feature(text)>>
    /\ TextFrame

\* block specification: the rich-text block extractors on every body of at
\* most MaxParts parts
InitBlocks ==
    /\ text \in BodiesOf(MaxParts) \ {<<>>}
    /\ parsed = <<>>
    /\ NoRichText
    /\ fs = [t \in 1..1 |-> File(NameOf(BaseCombo), BaseCombo)]
    /\ created = [t \in 1..1 |-> 0]
    /\ InitRun

NextBlocks ==
    \/ ExtractStoryBlocks
    \/ ExtractFeatureBlocks

SpecBlocks == InitBlocks /\ [][NextBlocks]_vars

\* the kind of the last line of kind t before line p ("" when there is none)
Nearest(t, p) ==
    LET S == {x \in 1..(p - 1) : text[x].t = t}
    IN IF S = {} THEN "" ELSE text[CHOOSE x \in S : \A y \in S : y <= x].v
\* the two-entity extractor returned field sets
TwoEntity == parsed # <<>> /\ ~parsed[1].raised /\ parsed[1].fields["feature"] = EmptyFields

Extracted == parsed # <<>> /\ ~parsed[1].raised
\* line m is a marker directly followed by a fenced block with one JSON
\* document, and no later line is a marker of the same field
LastMarkerWithBlock(m) ==
    /\ m + 3 <= Len(text)
    /\ text[m].t = "marker"
    /\ text[m + 1].t = "open" /\ text[m + 2].t = "json" /\ text[m + 3].t = "close"
    /\ \A x \in (m + 1)..Len(text) : text[x] # text[m]

\* C30: the value the extractor returns for a field id is the content of a
\* fenced JSON block that stands after a marker of that field and before
\* the next marker, so a marker without a block of its own never takes the
\* block of a later marker; and a later marker with a well-formed block of
\* its own still yields its value.
C30_OwnBlockOnly ==
    Extracted =>
        /\ \A e \in DOMAIN parsed[1].fields :
               \A f \in DOMAIN parsed[1].fields[e] :
                   Nearest("marker", parsed[1].fields[e][f]) = f
        /\ \A m \in DOMAIN text :
               (LastMarkerWithBlock(m) /\ Nearest("heading", m) # "")
                   => \E e \in DOMAIN parsed[1].fields :
                          /\ text[m].v \in DOMAIN parsed[1].fields[e]
                          /\ parsed[1].fields[e][text[m].v] = m + 2

\* ------------------------------------------------------------ front matter
\* lines of a document handed to the front-matter parser
MaxLines == 5

\* A document as the front-matter parser reads it: its lines ("---", an
\* empty line "", or a line "a" of other text) and whether the last line
\* ends in a newline
Document(lines, nl) == [lines |-> lines, nl |-> nl]
FrontMatter(raised, lines) == [raised |-> raised, lines |-> lines]

\* md.lstrip().startswith("---"): the first line that is not empty is "---"
StartsWithMarker(d) ==
    \E x \in DOMAIN d.lines : d.lines[x] = "---" /\ \A y \in 1..(x - 1) : d.lines[y] = ""

\* \n---\s*\n matched from line s on: the first "---" line after line s
\* that is followed by a newline (0: none)
Terminator(d, s) ==
    LET S == {c \in (s + 1)..Len(d.lines) : d.lines[c] = "---" /\ (c < Len(d.lines) \/ d.nl)}
    IN IF S = {} THEN 0 ELSE Min(S)

\* re.search(r"^---\s*\n(.*?)\n---\s*\n", md, DOTALL): the greedy \s* takes
\* the empty lines below the leading marker and gives them back one by one
\* until the rest matches; the group starts on line s
MatchYaml(d) ==
    LET n == Len(d.lines)
        starts == {s \in 2..n : d.lines[1] = "---" /\ (\A y \in 2..(s - 1) : d.lines[y] = "")
                                   /\ Terminator(d, s) # 0}
    IN IF starts = {} THEN FrontMatter(TRUE, <<>>)
       ELSE LET s == CHOOSE x \in starts : \A y \in starts : y <= x
            IN FrontMatter(FALSE, SubSeq(d.lines, s, Terminator(d, s) - 1))

\* re.search(r"^(.*?)(?:\n---\s*\n)", md, DOTALL): from the first line on
MatchLegacy(d) ==
    IF Terminator(d, 1) = 0 THEN FrontMatter(TRUE, <<>>)
    ELSE FrontMatter(FALSE, SubSeq(d.lines, 1, Terminator(d, 1) - 1))

\* create_epic_in_jira, sync_feature_to_jira: no front matter without "---"
extract_front_matter_block(d) ==
    IF StartsWithMarker(d) THEN MatchYaml(d) ELSE FrontMatter(TRUE, <<>>)
\* sync_to_jira, create_story_in_jira, pull_from_jira: the legacy form
extract_front_matter_block_legacy(d) ==
    IF StartsWithMarker(d) THEN MatchYaml(d) ELSE MatchLegacy(d)

RECURSIVE LinesOf(_)
LinesOf(n) ==
    IF n = 0 THEN {<<>>}
    ELSE LET S == LinesOf(n - 1) IN S \cup {Append(l, x) : l \in S, x \in {"---", "", "a"}}

ExtractFrontMatter ==
    /\ parsed = <<>>
    /\ parsed' = <<extract_front_matter_block(text)>>
    /\ TextFrame

ExtractFrontMatterLegacy ==
    /\ parsed = <<>>
    /\ parsed' = <<extract_front_matter_block_legacy(text)>>
    /\ TextFrame

\* front-matter specification: both forms of the parser on every document
\* of at most MaxLines lines
InitFrontMatter ==
    /\ text \in {Document(l, nl) : l \in LinesOf(MaxLines) \ {<<>>}, nl \in BOOLEAN}
    /\ parsed = <<>>
    /\ NoRichText
    /\ fs = [t \in 1..1 |-> File(NameOf(BaseCombo), BaseCombo)]
    /\ created = [t \in 1..1 |-> 0]
    /\ InitRun

NextFrontMatter ==
    \/ ExtractFrontMatter
    \/ ExtractFrontMatterLegacy

SpecFrontMatter == InitFrontMatter /\ [][NextFrontMatter]_vars

\* the first "---" line below the first line (0: none)
Closing == LET S == {c \in 2..Len(text.lines) : text.lines[c] = "---"} IN IF S = {} THEN 0 ELSE Min(S)

\* C26: in every entry point the front-matter parser fails when the document
\* does not start with a "---" line or has no closing "---" line, and
\* otherwise returns exactly the lines between the leading marker and the
\* next "---" line.
C26_FrontMatterBlock ==
    parsed # <<>> =>
        IF text.lines[1] # "---" \/ Closing = 0
        THEN parsed[1].raised
        ELSE /\ ~parsed[1].raised
             /\ parsed[1].lines = SubSeq(text.lines, 2, Closing - 1)

\* ------------------------------------------------------------ push ordering
\* positions in calls of the field-update calls for issue key
UpdateCalls(key) == {i \in DOMAIN calls : calls[i].op = "update" /\ calls[i].key = key}
\* the Subtask identifier the last push worked on ("" for a Feature)
PushedSubtask == IF tool = "sync_to_jira" THEN SubtaskId(pre) ELSE ""
PushedKeys == {PrimaryId(pre)} \cup (IF PushedSubtask = "" THEN {} ELSE {PushedSubtask})
Before(A, B) == \A a \in A, b \in B : a < b

\* C27: within one document of a push the calls of the transition step
\* come after every field-update call and only when the last update call of
\* the Story and of the Subtask (when it has an identifier) succeeded; when
\* a field update finally fails no transition call is made for either
\* entity; the Story is updated before the Subtask and transitioned before
\* the Subtask.
C27_PushOrdering ==
    Processed(PushTools) =>
        LET updates == UNION {UpdateCalls(k) : k \in PushedKeys}
            transitions == UNION {TransitionCalls(k) : k \in PushedKeys}
        IN /\ Before(updates, transitions)
           /\ (transitions # {} /\ ~dry_run) => \A k \in PushedKeys : UpdateSucceeded(k)
           /\ (\E k \in PushedKeys : UpdateCalls(k) # {} /\ ~UpdateSucceeded(k)) => transitions = {}
           /\ PushedSubtask # PrimaryId(pre) =>
                  /\ Before(UpdateCalls(PrimaryId(pre)), UpdateCalls(PushedSubtask))
                  /\ Before(TransitionCalls(PrimaryId(pre)), TransitionCalls(PushedSubtask))

\* a push that updated the Story and the Subtask and then applied a
\* transition to each
C27_Witness ==
    /\ Processed({"sync_to_jira"}) /\ ~dry_run /\ ret = "True"
    /\ PushedSubtask # "" /\ PushedSubtask # PrimaryId(pre)
    /\ UpdateSucceeded(PrimaryId(pre)) /\ UpdateSucceeded(PushedSubtask)
    /\ \A k \in PushedKeys : \E i \in TransitionCalls(k) : calls[i].op = "transition"

\* ------------------------------------------------------------ placeholders
\* the field set carries an "<unresolved:...>" placeholder
HasPlaceholder(f) ==
    \E k \in DOMAIN f, e \in OwnerInputs : e[2] # "" /\ f[k] = Unresolved(e[2])

\* C28: no create or update call sent to the remote carries an
\* "<unresolved:...>" placeholder; a field set with the placeholder is only
\* ever one printed by a dry run.
C28_NoPlaceholderSent ==
    Processed(CreateTools \cup PushTools) =>
        /\ \A i \in DOMAIN calls : Sent(calls[i]) => ~HasPlaceholder(calls[i].fields)
        /\ \A i \in DOMAIN printed : HasPlaceholder(printed[i]) => dry_run

\* a push that looked the owner of the document up, found no account and
\* sent the update without the owner
C28_Witness ==
    /\ Processed(PushTools) /\ ~dry_run
    /\ \E e \in OwnerInputs :
         /\ e[2] # "" /\ e[2] \notin AccountIdLike
         /\ \E i, j \in DOMAIN calls :
              /\ i < j /\ calls[i].op = "search" /\ calls[i].ok
              /\ Sent(calls[j]) /\ calls[j].ok /\ e[1] \notin DOMAIN calls[j].fields

\* ------------------------------------------------------------ local files
\* the last processed file is not what it was: renamed or rewritten
Modified == Now # pre
\* the primary remote operation of the last document went through: the
\* create call of the primary entity, the read of the issue to pull
PrimaryDone ==
    IF tool \in CreateTools THEN PrimaryCreates # {}
    ELSE \E i \in DOMAIN calls : calls[i].op = "get_issue" /\ calls[i].ok

\* C29: a local file is renamed or rewritten only by a create or pull run
\* that is no dry run and whose primary remote operation succeeded; dry
\* runs, push runs and create or pull runs that report a failure leave the
\* file's content and name as they were.
C29_FileFrame ==
    (ret # "none" /\ pre.name # NoFile.name /\ Modified)
        => /\ ~dry_run
           /\ tool \in CreateTools \cup PullTools
           /\ ret = "True"
           /\ PrimaryDone

\* a create run that wrote the new identifier into a draft and renamed it
C29_Witness ==
    /\ Processed(CreateTools) /\ ~dry_run /\ ret = "True" /\ PrimaryDone
    /\ Now.name # pre.name
    /\ Now.doc # pre.doc

====
